---- MODULE Spec2Model ----
(***************************************************************************)
(* A model of the chessica engine core: position, make/unmake, legality,   *)
(* draw rules and the Game object that drives them.                        *)
(*                                                                         *)
(* A Bitboard (u64) is modelled as the set of the indices of its set bits  *)
(* (a subset of 0..63), so |, & and ! are union, intersection and          *)
(* complement in 0..63, and a shift drops the bits that leave the word.    *)
(*                                                                         *)
(* The Zobrist keys are 64-bit numbers drawn at random by                  *)
(* src/bin/zobrist_gen.rs; their values are not part of the sources.  Each *)
(* key is modelled as a symbol of its own and a hash as the set of the     *)
(* keys XORed into it an odd number of times (XOR is symmetric             *)
(* difference): two hashes are equal in the model exactly when they are    *)
(* equal for every choice of the key values.                               *)
(***************************************************************************)
EXTENDS Integers, Sequences, FiniteSets, TLC

VARIABLES position, undos, halfmove_clock, last, start, makes, unmakes, history, uci

vars == <<position, undos, halfmove_clock, last, start, makes, unmakes, history, uci>>

(***************************************************************************)
(* Bounds of the model.                                                    *)
(***************************************************************************)
\* successful try_to_make_move calls in one behaviour of Spec
MaxMakes == 2

\* successful try_to_make_move calls in one behaviour of SpecRound, where
\* make_move and unmake_move are examined on every generated move of each
\* position
MaxRound == 1

\* successful try_to_make_move calls in one behaviour of SpecRep
MaxShuffle == 8

\* pieces besides the two kings in the positions of SpecMat
MaxExtra == 3

\* the largest depth perft is called with
MaxPerftDepth == 2

\* the largest depth of the searches whose flag and clock are quiet
MaxSearchDepth == 4

\* the largest depth cap of the iterative deepening runs
MaxDepthCap == 2

\* the number of go commands, each of which spawns a worker
MaxGo == 2

\* the depths of the searches compared with plain minimax
MaxRootDepth == 2

(***************************************************************************)
(* constants/board.rs                                                      *)
(***************************************************************************)
Squares == 0..63

A1 == 0
C1 == 2
D1 == 3
E1 == 4
F1 == 5
G1 == 6
H1 == 7
A8 == 56
C8 == 58
D8 == 59
E8 == 60
F8 == 61
G8 == 62
H8 == 63

\* RANK[n] and FILE[n], n in 1..8 (index 0 is the empty bitboard)
RANK(n) == {sq \in Squares : sq \div 8 = n - 1}
FILE(n) == {sq \in Squares : sq % 8 = n - 1}
FILE_A == FILE(1)
FILE_B == FILE(2)
FILE_G == FILE(7)
FILE_H == FILE(8)

Not(bb) == Squares \ bb

\* bb << n and bb >> n on u64
Shl(bb, n) == {s + n : s \in bb} \cap Squares
Shr(bb, n) == {s - n : s \in bb} \cap Squares

\* utility.rs
bit(sq) == {sq}

signed_shift(bb, offset) == IF offset >= 0 THEN Shl(bb, offset) ELSE Shr(bb, -offset)

\* lowest set bit (trailing_zeros); 64 on the empty bitboard
lsb(bb) == IF bb = {} THEN 64 ELSE CHOOSE s \in bb : \A t \in bb : s <= t

square_idx_to_coordinates(sq) == [file |-> sq % 8, rank |-> sq \div 8]

\* square colour by the parity of file XOR rank
is_square_color_white(sq) == ((sq % 8) + (sq \div 8)) % 2 = 1

(***************************************************************************)
(* core/piece.rs, core/player.rs                                           *)
(***************************************************************************)
Pieces == {"Pawn", "Knight", "Bishop", "Rook", "Queen", "King"}
NoPiece == "None"
NoSquare == -1

all_variants == <<"Pawn", "Knight", "Bishop", "Rook", "Queen", "King">>

Piece_index(p) ==
    CASE p = "Pawn" -> 0 [] p = "Knight" -> 1 [] p = "Bishop" -> 2
      [] p = "Rook" -> 3 [] p = "Queen" -> 4 [] p = "King" -> 5

Piece_encode(p) == Piece_index(p)

Piece_empty == 7

Piece_decode(x) ==
    IF x = Piece_empty THEN NoPiece
    ELSE CASE x = 0 -> "Pawn" [] x = 1 -> "Knight" [] x = 2 -> "Bishop"
           [] x = 3 -> "Rook" [] x = 4 -> "Queen" [] x = 5 -> "King"

Piece_value(p) ==
    CASE p = "Pawn" -> 100 [] p = "Knight" -> 300 [] p = "Bishop" -> 330
      [] p = "Rook" -> 500 [] p = "Queen" -> 900 [] p = "King" -> 100000

Players == {"White", "Black"}

opposite(player) == IF player = "White" THEN "Black" ELSE "White"

Player_index(player) == IF player = "White" THEN 0 ELSE 1

(***************************************************************************)
(* constants/attacks.rs                                                    *)
(***************************************************************************)
generate_knight_attack(square) ==
    LET bb    == {square}
        no_ab == bb \ (FILE_A \cup FILE_B)
        no_gh == bb \ (FILE_G \cup FILE_H)
        no_12 == bb \ (RANK(1) \cup RANK(2))
        no_78 == bb \ (RANK(7) \cup RANK(8))
    IN  Shl(no_ab \ RANK(8), 6)  \cup Shr(no_ab \ RANK(1), 10) \cup
        Shl(no_gh \ RANK(8), 10) \cup Shr(no_gh \ RANK(1), 6)  \cup
        Shr(no_12 \ FILE_H, 15)  \cup Shr(no_12 \ FILE_A, 17)  \cup
        Shl(no_78 \ FILE_H, 17)  \cup Shl(no_78 \ FILE_A, 15)

generate_king_attack(square) ==
    LET bb   == {square}
        no_a == bb \ FILE_A
        no_h == bb \ FILE_H
        no_1 == bb \ RANK(1)
        no_8 == bb \ RANK(8)
    IN  Shr(no_a, 1) \cup Shl(no_h, 1) \cup Shr(no_1, 8) \cup Shl(no_8, 8) \cup
        Shl(no_a \cap no_8, 7) \cup Shl(no_h \cap no_8, 9) \cup
        Shr(no_a \cap no_1, 9) \cup Shr(no_h \cap no_1, 7)

PAWN_ATTACKS_WHITE ==
    [sq \in Squares |->
        (IF sq % 8 > 0 /\ sq \div 8 < 7 THEN {sq + 7} ELSE {}) \cup
        (IF sq % 8 < 7 /\ sq \div 8 < 7 THEN {sq + 9} ELSE {})]

PAWN_ATTACKS_BLACK ==
    [sq \in Squares |->
        (IF sq % 8 > 0 /\ sq \div 8 > 0 THEN {sq - 9} ELSE {}) \cup
        (IF sq % 8 < 7 /\ sq \div 8 > 0 THEN {sq - 7} ELSE {})]

KNIGHT_ATTACKS == [sq \in Squares |-> generate_knight_attack(sq)]

KING_ATTACKS == [sq \in Squares |-> generate_king_attack(sq)]

(***************************************************************************)
(* constants/masks.rs                                                      *)
(***************************************************************************)
ROOK_MASKS ==
    [i \in Squares |->
        LET rank  == i \div 8
            file  == i % 8
            bb    == {i}
            edges == FILE_A \cup FILE_H \cup RANK(1) \cup RANK(8)
        IN  CASE i = 0  -> (RANK(1) \cup FILE_A) \ (RANK(8) \cup FILE_H \cup {0})
              [] i = 7  -> (RANK(1) \cup FILE_H) \ (RANK(8) \cup FILE_A \cup {7})
              [] i = 56 -> (RANK(8) \cup FILE_A) \ (RANK(1) \cup FILE_H \cup {56})
              [] i = 63 -> (RANK(8) \cup FILE_H) \ (RANK(1) \cup FILE_A \cup {63})
              [] OTHER ->
                 IF bb \cap FILE_A # {} THEN
                     (RANK(rank + 1) \cup FILE_A) \ (bb \cup FILE_H \cup RANK(1) \cup RANK(8))
                 ELSE IF bb \cap FILE_H # {} THEN
                     (RANK(rank + 1) \cup FILE_H) \ (bb \cup FILE_A \cup RANK(1) \cup RANK(8))
                 ELSE IF bb \cap RANK(1) # {} THEN
                     (RANK(1) \cup FILE(file + 1)) \ (bb \cup RANK(8) \cup FILE_A \cup FILE_H)
                 ELSE IF bb \cap RANK(8) # {} THEN
                     (RANK(8) \cup FILE(file + 1)) \ (bb \cup RANK(1) \cup FILE_A \cup FILE_H)
                 ELSE
                     (RANK(rank + 1) \cup FILE(file + 1)) \ (bb \cup edges)]

\* the four while loops of BISHOP_MASKS, one diagonal each
BISHOP_MASKS ==
    [sq \in Squares |->
        LET rank == sq \div 8
            file == sq % 8
            tr == {(rank + k) * 8 + (file + k) : k \in {k \in 1..7 :
                      \A j \in 1..k : rank + j < 7 /\ file + j < 7}}
            tl == {(rank + k) * 8 + (file - k) : k \in {k \in 1..7 :
                      \A j \in 1..k : rank + j < 7 /\ file > j}}
            br == {(rank - k) * 8 + (file + k) : k \in {k \in 1..7 :
                      \A j \in 1..k : rank > j /\ file + j < 7}}
            bl == {(rank - k) * 8 + (file - k) : k \in {k \in 1..7 :
                      \A j \in 1..k : rank > j /\ file >= j}}
        IN  tr \cup tl \cup br \cup bl]

(***************************************************************************)
(* The magic lookup tables.  The table entry of a square for a set of      *)
(* blockers (the occupancy cut down to the relevance mask) is the attack   *)
(* set of a slider on the square: along each ray every square up to and    *)
(* including the first blocker.  The magic multiplication only addresses   *)
(* the entry.                                                              *)
(***************************************************************************)
RECURSIVE Ray(_, _, _, _, _)
Ray(f, r, df, dr, blockers) ==
    LET nf == f + df
        nr == r + dr
        sq == nr * 8 + nf
    IN  IF nf < 0 \/ nf > 7 \/ nr < 0 \/ nr > 7 THEN {}
        ELSE IF sq \in blockers THEN {sq}
        ELSE {sq} \cup Ray(nf, nr, df, dr, blockers)

ROOK_ATTACK_TABLES(sq, blockers) ==
    Ray(sq % 8, sq \div 8, 1, 0, blockers) \cup Ray(sq % 8, sq \div 8, -1, 0, blockers) \cup
    Ray(sq % 8, sq \div 8, 0, 1, blockers) \cup Ray(sq % 8, sq \div 8, 0, -1, blockers)

BISHOP_ATTACK_TABLES(sq, blockers) ==
    Ray(sq % 8, sq \div 8, 1, 1, blockers) \cup Ray(sq % 8, sq \div 8, -1, 1, blockers) \cup
    Ray(sq % 8, sq \div 8, 1, -1, blockers) \cup Ray(sq % 8, sq \div 8, -1, -1, blockers)

(***************************************************************************)
(* Zobrist keys (bin/zobrist_gen.rs): one symbol per table entry.          *)
(***************************************************************************)
ZOBRIST_PIECE(piece, color, sq) == piece * 128 + color * 64 + sq
ZOBRIST_CASTLING(i) == 768 + i
ZOBRIST_EN_PASSANT_FILE(file) == 784 + file
ZOBRIST_SIDE_BLACK == 792

\* hash ^= key
Xor(hash, key) == IF key \in hash THEN hash \ {key} ELSE hash \cup {key}

(***************************************************************************)
(* core/bitboard.rs                                                        *)
(***************************************************************************)
set_bit(bb, n) == bb \cup {n}

unset_bit(bb, n) == bb \ {n}

EmptySet == [all |-> {}, pawns |-> {}, knights |-> {}, bishops |-> {},
             rooks |-> {}, queens |-> {}, king |-> {}]

\* the field of a BitboardSet that holds a piece type
piece_to_bb(piece) ==
    CASE piece = "Knight" -> "knights" [] piece = "Bishop" -> "bishops"
      [] piece = "Rook" -> "rooks"     [] piece = "Queen" -> "queens"
      [] piece = "King" -> "king"      [] piece = "Pawn" -> "pawns"

BitboardSet_update(s) ==
    [s EXCEPT !.all = s.pawns \cup s.knights \cup s.bishops \cup
                      s.rooks \cup s.queens \cup s.king]

BitboardSet_unset_bit(s, n) ==
    [all     |-> unset_bit(s.all, n),     pawns   |-> unset_bit(s.pawns, n),
     knights |-> unset_bit(s.knights, n), bishops |-> unset_bit(s.bishops, n),
     rooks   |-> unset_bit(s.rooks, n),   queens  |-> unset_bit(s.queens, n),
     king    |-> unset_bit(s.king, n)]

BitboardSet_set_bit(s, n, piece) ==
    LET t == [s EXCEPT !.all = set_bit(s.all, n)]
    IN  [t EXCEPT ![piece_to_bb(piece)] = set_bit(t[piece_to_bb(piece)], n)]

count(s, piece) == Cardinality(s[piece_to_bb(piece)])

count_all(s) ==
    Cardinality(s.pawns) + Cardinality(s.knights) + Cardinality(s.bishops) +
    Cardinality(s.rooks) + Cardinality(s.queens) + Cardinality(s.king)

BitboardSet_what(s, sq_idx) ==
    IF sq_idx \in s.pawns THEN "Pawn"
    ELSE IF sq_idx \in s.knights THEN "Knight"
    ELSE IF sq_idx \in s.bishops THEN "Bishop"
    ELSE IF sq_idx \in s.rooks THEN "Rook"
    ELSE IF sq_idx \in s.queens THEN "Queen"
    ELSE IF sq_idx \in s.king THEN "King"
    ELSE NoPiece

(***************************************************************************)
(* core/chess_move.rs                                                      *)
(***************************************************************************)
FLAG_CAPTURE == 1
FLAG_EN_PASSANT == 2
FLAG_DOUBLE_PUSH == 4
FLAG_KINGSIDE_CASTLING == 8
FLAG_QUEENSIDE_CASTLING == 16

HasFlag(flags, flag) == (flags \div flag) % 2 = 1

encode_pieces(piece, promotion) ==
    LET base == Piece_encode(piece) % 16
        prom == IF promotion = NoPiece THEN Piece_empty ELSE Piece_encode(promotion)
    IN  (prom * 16 + base) % 256

Move_new(from, to, piece, capture) ==
    [from |-> from, to |-> to, pieces_field |-> encode_pieces(piece, NoPiece),
     flags |-> IF capture THEN FLAG_CAPTURE ELSE 0]

Move_pawn(from, to, capture, promotion, en_passant) ==
    [from |-> from, to |-> to, pieces_field |-> encode_pieces("Pawn", promotion),
     flags |-> (IF capture THEN FLAG_CAPTURE ELSE 0) +
               (IF en_passant THEN FLAG_EN_PASSANT ELSE 0) +
               (IF (to - from) % 256 = 16 \/ (from - to) % 256 = 16
                   THEN FLAG_DOUBLE_PUSH ELSE 0)]

Move_castling(player, side) ==
    LET from == IF player = "White" THEN E1 ELSE E8
        to   == CASE player = "White" /\ side = "KingSide"  -> G1
                  [] player = "White" /\ side = "QueenSide" -> C1
                  [] player = "Black" /\ side = "KingSide"  -> G8
                  [] player = "Black" /\ side = "QueenSide" -> C8
    IN  [from |-> from, to |-> to, pieces_field |-> encode_pieces("King", NoPiece),
         flags |-> IF side = "KingSide" THEN FLAG_KINGSIDE_CASTLING
                                        ELSE FLAG_QUEENSIDE_CASTLING]

piece(m) == Piece_decode(m.pieces_field % 16)
promotion(m) == Piece_decode(m.pieces_field \div 16)
is_capture(m) == HasFlag(m.flags, FLAG_CAPTURE)
is_en_passant(m) == HasFlag(m.flags, FLAG_EN_PASSANT)
is_double_push(m) == HasFlag(m.flags, FLAG_DOUBLE_PUSH)
is_kingside_castling(m) == HasFlag(m.flags, FLAG_KINGSIDE_CASTLING)
is_queenside_castling(m) == HasFlag(m.flags, FLAG_QUEENSIDE_CASTLING)
is_castling(m) == is_kingside_castling(m) \/ is_queenside_castling(m)

AllRights == [white_kingside |-> TRUE, white_queenside |-> TRUE,
              black_kingside |-> TRUE, black_queenside |-> TRUE]

NoRights == [white_kingside |-> FALSE, white_queenside |-> FALSE,
             black_kingside |-> FALSE, black_queenside |-> FALSE]

CastlingRights_encode(c) ==
    (IF c.white_kingside THEN 1 ELSE 0) + (IF c.white_queenside THEN 2 ELSE 0) +
    (IF c.black_kingside THEN 4 ELSE 0) + (IF c.black_queenside THEN 8 ELSE 0)

CastlingRights_reset(c, player) ==
    IF player = "White"
        THEN [c EXCEPT !.white_kingside = FALSE, !.white_queenside = FALSE]
        ELSE [c EXCEPT !.black_kingside = FALSE, !.black_queenside = FALSE]

CastlingRights_reset_side(c, player, side) ==
    CASE player = "White" /\ side = "QueenSide" -> [c EXCEPT !.white_queenside = FALSE]
      [] player = "White" /\ side = "KingSide"  -> [c EXCEPT !.white_kingside = FALSE]
      [] player = "Black" /\ side = "QueenSide" -> [c EXCEPT !.black_queenside = FALSE]
      [] player = "Black" /\ side = "KingSide"  -> [c EXCEPT !.black_kingside = FALSE]

CastlingRights_any(c, player) ==
    IF player = "White" THEN c.white_kingside \/ c.white_queenside
                        ELSE c.black_kingside \/ c.black_queenside

(***************************************************************************)
(* core/position.rs, core/zobrist.rs                                       *)
(***************************************************************************)
\* Position::what: the owner and the type of the piece on a square
Position_what(pos, sq_idx) ==
    IF BitboardSet_what(pos.w, sq_idx) # NoPiece
        THEN <<"White", BitboardSet_what(pos.w, sq_idx)>>
    ELSE IF BitboardSet_what(pos.b, sq_idx) # NoPiece
        THEN <<"Black", BitboardSet_what(pos.b, sq_idx)>>
    ELSE <<NoPiece, NoPiece>>

Position_update(pos) ==
    LET w == BitboardSet_update(pos.w)
        b == BitboardSet_update(pos.b)
    IN  [pos EXCEPT !.w = w, !.b = b, !.occupied = w.all \cup b.all]

\* (friendly, hostile) of a player, and the position with both written back
friendly_of(pos, player) == IF player = "White" THEN pos.w ELSE pos.b
hostile_of(pos, player) == IF player = "White" THEN pos.b ELSE pos.w
with_perspective(pos, player, friendly, hostile) ==
    IF player = "White" THEN [pos EXCEPT !.w = friendly, !.b = hostile]
                        ELSE [pos EXCEPT !.b = friendly, !.w = hostile]

\* hash ^= key when cond holds
XorIf(cond, hash, key) == IF cond THEN Xor(hash, key) ELSE hash

piece_key(what, sq) == ZOBRIST_PIECE(Piece_index(what[2]), Player_index(what[1]), sq)

\* the hash of a position computed from scratch
zobrist_hash(pos) ==
    XorIf(pos.player_to_move = "Black",
      XorIf(pos.en_passant_square # NoSquare,
        XorIf(pos.castling.black_queenside,
          XorIf(pos.castling.black_kingside,
            XorIf(pos.castling.white_queenside,
              XorIf(pos.castling.white_kingside,
                {piece_key(Position_what(pos, sq), sq) :
                    sq \in {s \in Squares : Position_what(pos, s)[2] # NoPiece}},
                ZOBRIST_CASTLING(0)),
              ZOBRIST_CASTLING(1)),
            ZOBRIST_CASTLING(2)),
          ZOBRIST_CASTLING(3)),
        ZOBRIST_EN_PASSANT_FILE(square_idx_to_coordinates(pos.en_passant_square).file)),
      ZOBRIST_SIDE_BLACK)

\* the tail of Position::from_fen: the parsed fields made into a Position
from_fen(w, b, side_to_move, castling, en_passant_square) ==
    LET w1  == BitboardSet_update(w)
        b1  == BitboardSet_update(b)
        pos == [w |-> w1, b |-> b1, occupied |-> w1.all \cup b1.all,
                player_to_move |-> side_to_move,
                en_passant_square |-> en_passant_square,
                castling |-> castling, zobrist_hash |-> {}]
    IN  [pos EXCEPT !.zobrist_hash = zobrist_hash(pos)]

(***************************************************************************)
(* movegen.rs                                                              *)
(***************************************************************************)
knight_attacks(pos, sq, friendly) == KNIGHT_ATTACKS[sq] \ friendly

bishop_attacks(pos, sq, friendly) ==
    BISHOP_ATTACK_TABLES(sq, pos.occupied \cap BISHOP_MASKS[sq]) \ friendly

rook_attacks(pos, sq, friendly) ==
    ROOK_ATTACK_TABLES(sq, pos.occupied \cap ROOK_MASKS[sq]) \ friendly

queen_attacks(pos, sq, friendly) ==
    rook_attacks(pos, sq, friendly) \cup bishop_attacks(pos, sq, friendly)

king_attacks(pos, sq, friendly) == KING_ATTACKS[sq] \ friendly

\* a destination on a piece of the opponent makes the move a capture
capture_flag(pos, to) == to \in hostile_of(pos, pos.player_to_move).all

\* the moves add_pawn_moves pushes for one target mask
add_pawn_moves(pos, to_mask, offset, promo, en_passant) ==
    UNION {
        LET from == to - offset
            capt == en_passant \/ capture_flag(pos, to)
        IN  IF promo
              THEN {Move_pawn(from, to, capt, p, en_passant) :
                        p \in {"Queen", "Rook", "Bishop", "Knight"}}
              ELSE {Move_pawn(from, to, capt, NoPiece, en_passant)}
        : to \in to_mask}

generate_pseudo_pawn_moves(pos) ==
    LET white      == pos.player_to_move = "White"
        empty      == Not(pos.occupied)
        ep_bb      == IF pos.en_passant_square # NoSquare
                        THEN {pos.en_passant_square} ELSE {}
        pawns      == IF white THEN pos.w.pawns ELSE pos.b.pawns
        enemy      == IF white THEN pos.b.all ELSE pos.w.all
        left_off   == IF white THEN 7 ELSE -7
        fwd_off    == IF white THEN 8 ELSE -8
        right_off  == IF white THEN 9 ELSE -9
        start_rank == IF white THEN RANK(2) ELSE RANK(7)
        promo_rank == IF white THEN RANK(8) ELSE RANK(1)
        mask_right == IF white THEN Not(FILE_H) ELSE Not(FILE_A)
        mask_left  == IF white THEN Not(FILE_A) ELSE Not(FILE_H)
        single  == signed_shift(pawns, fwd_off) \cap empty
        double  == signed_shift(signed_shift(pawns \cap start_rank, fwd_off) \cap empty,
                                fwd_off) \cap empty
        left    == signed_shift(pawns \cap mask_left, left_off) \cap enemy
        right   == signed_shift(pawns \cap mask_right, right_off) \cap enemy
        ep_left  == signed_shift(pawns \cap mask_left, left_off) \cap ep_bb
        ep_right == signed_shift(pawns \cap mask_right, right_off) \cap ep_bb
    IN  add_pawn_moves(pos, single \ promo_rank, fwd_off, FALSE, FALSE) \cup
        add_pawn_moves(pos, double, 2 * fwd_off, FALSE, FALSE) \cup
        add_pawn_moves(pos, left \ promo_rank, left_off, FALSE, FALSE) \cup
        add_pawn_moves(pos, right \ promo_rank, right_off, FALSE, FALSE) \cup
        add_pawn_moves(pos, single \cap promo_rank, fwd_off, TRUE, FALSE) \cup
        add_pawn_moves(pos, left \cap promo_rank, left_off, TRUE, FALSE) \cup
        add_pawn_moves(pos, right \cap promo_rank, right_off, TRUE, FALSE) \cup
        add_pawn_moves(pos, ep_left, left_off, FALSE, TRUE) \cup
        add_pawn_moves(pos, ep_right, right_off, FALSE, TRUE)

attack_fn(pos, piece_type, from, friendly) ==
    CASE piece_type = "Knight" -> knight_attacks(pos, from, friendly)
      [] piece_type = "Bishop" -> bishop_attacks(pos, from, friendly)
      [] piece_type = "Rook"   -> rook_attacks(pos, from, friendly)
      [] piece_type = "Queen"  -> queen_attacks(pos, from, friendly)
      [] piece_type = "King"   -> king_attacks(pos, from, friendly)

generate_pseudo_moves_for_piece(pos, piece_type) ==
    LET bb       == friendly_of(pos, pos.player_to_move)
        friendly == bb.all
    IN  UNION {{Move_new(from, to, piece_type, capture_flag(pos, to)) :
                    to \in attack_fn(pos, piece_type, from, friendly)} :
               from \in bb[piece_to_bb(piece_type)]}

(***************************************************************************)
(* core/rules/checks.rs                                                    *)
(***************************************************************************)
\* the attack query with the pawn table of the attacker's own colour
is_square_attacked_own_pawn_table(pos, sq, by_player) ==
    LET friend == friendly_of(pos, by_player)
        pawn   == IF by_player = "White" THEN PAWN_ATTACKS_WHITE[sq]
                                         ELSE PAWN_ATTACKS_BLACK[sq]
    IN  \/ pawn \cap friend.pawns # {}
        \/ knight_attacks(pos, sq, {}) \cap friend.knights # {}
        \/ bishop_attacks(pos, sq, {}) \cap friend.bishops # {}
        \/ rook_attacks(pos, sq, {}) \cap friend.rooks # {}
        \/ queen_attacks(pos, sq, {}) \cap friend.queens # {}
        \/ king_attacks(pos, sq, {}) \cap friend.king # {}

is_square_attacked(pos, sq, by_player) ==
    LET friend == friendly_of(pos, by_player)
        pawn   == IF by_player = "White" THEN PAWN_ATTACKS_BLACK[sq]
                                         ELSE PAWN_ATTACKS_WHITE[sq]
    IN  \/ pawn \cap friend.pawns # {}
        \/ knight_attacks(pos, sq, {}) \cap friend.knights # {}
        \/ bishop_attacks(pos, sq, {}) \cap friend.bishops # {}
        \/ rook_attacks(pos, sq, {}) \cap friend.rooks # {}
        \/ queen_attacks(pos, sq, {}) \cap friend.queens # {}
        \/ king_attacks(pos, sq, {}) \cap friend.king # {}

is_king_in_check(pos, player) ==
    is_square_attacked(pos, lsb(friendly_of(pos, player).king), opposite(player))

\* castling is generated when the right is set, the squares between king and
\* rook are empty and the king's start, transit and target squares are safe
castling_moves(pos) ==
    LET player == pos.player_to_move
        white  == player = "White"
        base   == IF white THEN 0 ELSE 56
        enemy  == opposite(player)
        safe(sqs) == \A s \in sqs : ~is_square_attacked(pos, s, enemy)
        ks == IF white THEN pos.castling.white_kingside ELSE pos.castling.black_kingside
        qs == IF white THEN pos.castling.white_queenside ELSE pos.castling.black_queenside
    IN  (IF ks /\ {base + 5, base + 6} \cap pos.occupied = {}
               /\ safe({base + 4, base + 5, base + 6})
            THEN {Move_castling(player, "KingSide")} ELSE {}) \cup
        (IF qs /\ {base + 1, base + 2, base + 3} \cap pos.occupied = {}
               /\ safe({base + 4, base + 3, base + 2})
            THEN {Move_castling(player, "QueenSide")} ELSE {})

\* the order in which pop_lsb visits the squares: from, then to, ascending
MoveKey(m) == ((m.from * 64 + m.to) * 128 + m.pieces_field) * 32 + m.flags

RECURSIVE pop_lsb_order(_)
push_first(ms, m) == <<m>> \o pop_lsb_order(ms \ {m})

pop_lsb_order(ms) ==
    IF ms = {} THEN <<>>
    ELSE push_first(ms, CHOOSE x \in ms : \A y \in ms : MoveKey(x) <= MoveKey(y))

\* src/movegen.rs: the list the six calls of pseudo_moves push, in call order
movegen_pseudo_moves(pos) ==
    pop_lsb_order(generate_pseudo_pawn_moves(pos)) \o
    pop_lsb_order(generate_pseudo_moves_for_piece(pos, "Knight")) \o
    pop_lsb_order(generate_pseudo_moves_for_piece(pos, "King")) \o
    pop_lsb_order(generate_pseudo_moves_for_piece(pos, "Rook")) \o
    pop_lsb_order(generate_pseudo_moves_for_piece(pos, "Queen")) \o
    pop_lsb_order(generate_pseudo_moves_for_piece(pos, "King"))

\* core/movegen.rs: every move playable by the side to move ignoring king
\* safety, pawns first, then the five piece types, then castling
pseudo_moves(pos) ==
    pop_lsb_order(generate_pseudo_pawn_moves(pos)) \o
    pop_lsb_order(generate_pseudo_moves_for_piece(pos, "Knight")) \o
    pop_lsb_order(generate_pseudo_moves_for_piece(pos, "Bishop")) \o
    pop_lsb_order(generate_pseudo_moves_for_piece(pos, "Rook")) \o
    pop_lsb_order(generate_pseudo_moves_for_piece(pos, "Queen")) \o
    pop_lsb_order(generate_pseudo_moves_for_piece(pos, "King")) \o
    pop_lsb_order(castling_moves(pos))

(***************************************************************************)
(* core/rules/make.rs                                                      *)
(***************************************************************************)
toggle_piece_hash(hash, pc, player, sq) ==
    Xor(hash, ZOBRIST_PIECE(Piece_index(pc), Player_index(player), sq))

apply_move_hash(hash, m, player) ==
    toggle_piece_hash(toggle_piece_hash(hash, piece(m), player, m.from),
                      piece(m), player, m.to)

en_passant_hash(hash, ep_sq) ==
    Xor(hash, ZOBRIST_EN_PASSANT_FILE(square_idx_to_coordinates(ep_sq).file))

\* mutant: an en-passant square is left in place by a move that is no
\* double push
update_en_passant_square_keeps(pos, m) ==
    IF is_double_push(m)
      THEN [pos EXCEPT !.en_passant_square = (m.from + m.to) \div 2,
                       !.zobrist_hash =
                          en_passant_hash(
                              IF pos.en_passant_square # NoSquare
                                THEN en_passant_hash(pos.zobrist_hash,
                                                     pos.en_passant_square)
                                ELSE pos.zobrist_hash,
                              (m.from + m.to) \div 2)]
      ELSE pos

update_en_passant_square(pos, m) ==
    LET h1 == IF pos.en_passant_square # NoSquare
                THEN en_passant_hash(pos.zobrist_hash, pos.en_passant_square)
                ELSE pos.zobrist_hash
    IN  IF is_double_push(m)
          THEN [pos EXCEPT !.en_passant_square = (m.from + m.to) \div 2,
                           !.zobrist_hash = en_passant_hash(h1, (m.from + m.to) \div 2)]
          ELSE [pos EXCEPT !.en_passant_square = NoSquare, !.zobrist_hash = h1]

\* (rook_from, rook_to) of a castling move
castling_rook(who, m) ==
    CASE who = "White" /\ is_kingside_castling(m)  -> <<H1, F1>>
      [] who = "White" /\ ~is_kingside_castling(m) /\ is_queenside_castling(m) -> <<A1, D1>>
      [] who = "Black" /\ is_kingside_castling(m)  -> <<H8, F8>>
      [] who = "Black" /\ ~is_kingside_castling(m) /\ is_queenside_castling(m) -> <<A8, D8>>

handle_castling(pos, m, who_made_move) ==
    LET rook_from == castling_rook(who_made_move, m)[1]
        rook_to   == castling_rook(who_made_move, m)[2]
        friendly  == friendly_of(pos, who_made_move)
        moved     == [friendly EXCEPT
                        !.king  = set_bit(unset_bit(friendly.king, m.from), m.to),
                        !.rooks = set_bit(unset_bit(friendly.rooks, rook_from), rook_to)]
        rook_move == Move_new(rook_from, rook_to, "Rook", FALSE)
        hash      == apply_move_hash(apply_move_hash(pos.zobrist_hash, m, who_made_move),
                                     rook_move, who_made_move)
    IN  [with_perspective(pos, who_made_move, moved, hostile_of(pos, who_made_move))
            EXCEPT !.zobrist_hash = hash,
                   !.castling = CastlingRights_reset(pos.castling, who_made_move)]

\* the handlers below return the changed BitboardSet and the changed hash
handle_promotion(friendly, m, hash, who_made_move, promotion_piece) ==
    LET f1 == [friendly EXCEPT !.pawns = unset_bit(friendly.pawns, m.from)]
        f2 == [f1 EXCEPT ![piece_to_bb(promotion_piece)] =
                            set_bit(f1[piece_to_bb(promotion_piece)], m.to)]
    IN  [set  |-> f2,
         hash |-> toggle_piece_hash(toggle_piece_hash(hash, "Pawn", who_made_move, m.from),
                                    promotion_piece, who_made_move, m.to)]

handle_non_promotion_move(friendly, m, hash, who_made_move) ==
    [set  |-> [friendly EXCEPT ![piece_to_bb(piece(m))] =
                  set_bit(unset_bit(friendly[piece_to_bb(piece(m))], m.from), m.to)],
     hash |-> toggle_piece_hash(toggle_piece_hash(hash, piece(m), who_made_move, m.from),
                                piece(m), who_made_move, m.to)]

handle_en_passant(hostile, m, hash, who_made_move) ==
    LET captured_pawn_sq == IF who_made_move = "White" THEN m.to - 8 ELSE m.to + 8
    IN  [set  |-> [hostile EXCEPT !.pawns = unset_bit(hostile.pawns, captured_pawn_sq)],
         hash |-> toggle_piece_hash(hash, "Pawn", opposite(who_made_move),
                                    captured_pawn_sq)]

\* a capture that leaves the castling rights as they are
handle_capture_keeps_rights(hostile, m, hash, castling, who_made_move, captured_piece) ==
    [set  |-> BitboardSet_unset_bit(hostile, m.to),
     hash |-> toggle_piece_hash(hash, captured_piece, opposite(who_made_move), m.to),
     castling |-> castling]

\* mutant: the captured piece stays on its square
handle_capture_keeps_piece(hostile, m, hash, castling, who_made_move, captured_piece) ==
    [set |-> hostile, hash |-> hash, castling |-> castling]

handle_capture(hostile, m, hash, castling, who_made_move, captured_piece) ==
    [set  |-> BitboardSet_unset_bit(hostile, m.to),
     hash |-> toggle_piece_hash(hash, captured_piece, opposite(who_made_move), m.to),
     castling |->
        CASE m.to = A1 -> CastlingRights_reset_side(castling, "White", "QueenSide")
          [] m.to = H1 -> CastlingRights_reset_side(castling, "White", "KingSide")
          [] m.to = A8 -> CastlingRights_reset_side(castling, "Black", "QueenSide")
          [] m.to = H8 -> CastlingRights_reset_side(castling, "Black", "KingSide")
          [] OTHER -> castling]

update_castling_rights(castling, m, who_made_move) ==
    CASE piece(m) = "King" -> CastlingRights_reset(castling, who_made_move)
      [] piece(m) = "Rook" /\ CastlingRights_any(castling, who_made_move) ->
            CASE m.from = A1 \/ m.from = A8 ->
                    CastlingRights_reset_side(castling, who_made_move, "QueenSide")
              [] m.from = H1 \/ m.from = H8 ->
                    CastlingRights_reset_side(castling, who_made_move, "KingSide")
              [] OTHER -> castling
      [] OTHER -> castling

update_castling_hash(pos, old_castling) ==
    [pos EXCEPT !.zobrist_hash =
        Xor(Xor(pos.zobrist_hash, ZOBRIST_CASTLING(CastlingRights_encode(old_castling))),
            ZOBRIST_CASTLING(CastlingRights_encode(pos.castling)))]

finalize_move(pos, clock) ==
    LET p1 == Position_update(pos)
    IN  [pos |-> [p1 EXCEPT !.player_to_move = opposite(p1.player_to_move),
                            !.zobrist_hash = Xor(p1.zobrist_hash, ZOBRIST_SIDE_BLACK)],
         halfmove_clock |-> clock + 1]

\* the clock a pawn move or a capture leaves before finalize_move
reset_clock(m, clock) == IF piece(m) = "Pawn" \/ is_capture(m) THEN 0 ELSE clock

\* the mover's own pieces: promotion or plain move (make.rs 41-45)
move_friendly(friendly, m, hash, who_made_move) ==
    IF promotion(m) # NoPiece
      THEN handle_promotion(friendly, m, hash, who_made_move, promotion(m))
      ELSE handle_non_promotion_move(friendly, m, hash, who_made_move)

with_castling(e, castling) == [set |-> e.set, hash |-> e.hash, castling |-> castling]

\* the opponent's pieces: en passant or capture (make.rs 47-52)
move_hostile(hostile, m, hash, castling, who_made_move) ==
    IF is_en_passant(m)
      THEN with_castling(handle_en_passant(hostile, m, hash, who_made_move), castling)
    ELSE IF is_capture(m)
      THEN handle_capture(hostile, m, hash, castling, who_made_move,
                          BitboardSet_what(hostile, m.to))
    ELSE [set |-> hostile, hash |-> hash, castling |-> castling]

\* pos.castling = castling; pos.zobrist_hash = hash (make.rs 54-55)
write_back(pos, who_made_move, f, h) ==
    [with_perspective(pos, who_made_move, f.set, h.set)
        EXCEPT !.castling = h.castling, !.zobrist_hash = h.hash]

non_castling_hostile(pos, m, who_made_move, f) ==
    write_back(pos, who_made_move, f,
               move_hostile(hostile_of(pos, who_made_move), m, f.hash,
                            update_castling_rights(pos.castling, m, who_made_move),
                            who_made_move))

\* the else branch of make_move (make.rs 28-56), on the position
non_castling(pos, m, who_made_move) ==
    non_castling_hostile(pos, m, who_made_move,
        move_friendly(friendly_of(pos, who_made_move), m, pos.zobrist_hash,
                      who_made_move))

\* undo.captured_piece: set in the capture branch alone (make.rs 17, 50)
captured_piece(pos, m) ==
    IF ~is_castling(m) /\ ~is_en_passant(m) /\ is_capture(m)
      THEN BitboardSet_what(hostile_of(pos, pos.player_to_move), m.to)
      ELSE NoPiece

make_result(fin, undo) ==
    [pos |-> fin.pos, halfmove_clock |-> fin.halfmove_clock, undo |-> undo]

\* make_move returns the position and the clock it wrote, and the UndoData
make_move(pos, m, clock) ==
    make_result(
        finalize_move(
            update_castling_hash(
                IF is_castling(m)
                  THEN handle_castling(update_en_passant_square(pos, m), m,
                                       pos.player_to_move)
                  ELSE non_castling(update_en_passant_square(pos, m), m,
                                    pos.player_to_move),
                pos.castling),
            IF is_castling(m) THEN clock ELSE reset_clock(m, clock)),
        [move_to_undo |-> m, captured_piece |-> captured_piece(pos, m),
         castling |-> pos.castling,
         en_passant_square |-> pos.en_passant_square,
         halfmove_clock |-> clock, zobrist_hash |-> pos.zobrist_hash])

(***************************************************************************)
(* core/rules/unmake.rs                                                    *)
(***************************************************************************)
undo_castling(pos, m, who) ==
    LET rook_from == castling_rook(who, m)[1]
        rook_to   == castling_rook(who, m)[2]
        f1 == BitboardSet_set_bit(BitboardSet_unset_bit(friendly_of(pos, who), m.to),
                                  m.from, "King")
        f2 == BitboardSet_set_bit(BitboardSet_unset_bit(f1, rook_to), rook_from, "Rook")
    IN  with_perspective(pos, who, f2, hostile_of(pos, who))

undo_promotion(friendly, m) ==
    BitboardSet_set_bit(BitboardSet_unset_bit(friendly, m.to), m.from, "Pawn")

undo_non_promotion_move(friendly, m) ==
    BitboardSet_set_bit(BitboardSet_unset_bit(friendly, m.to), m.from, piece(m))

\* mutant: the captured piece comes back as a pawn
undo_capture_as_pawn(hostile, m, captured) == BitboardSet_set_bit(hostile, m.to, "Pawn")

undo_capture(hostile, m, captured) == BitboardSet_set_bit(hostile, m.to, captured)

undo_en_passant(hostile, m, who) ==
    BitboardSet_set_bit(hostile, IF who = "White" THEN m.to - 8 ELSE m.to + 8, "Pawn")

\* the fields unmake_move restores from the UndoData (unmake.rs 24-28)
restore(pos, undo) ==
    [pos EXCEPT !.castling = undo.castling,
                !.en_passant_square = undo.en_passant_square,
                !.zobrist_hash = undo.zobrist_hash,
                !.player_to_move = opposite(pos.player_to_move)]

undo_friendly(friendly, m) ==
    IF promotion(m) # NoPiece THEN undo_promotion(friendly, m)
                              ELSE undo_non_promotion_move(friendly, m)

undo_hostile(hostile, m, undo, who) ==
    IF is_en_passant(m) THEN undo_en_passant(hostile, m, who)
    ELSE IF is_capture(m) THEN undo_capture(hostile, m, undo.captured_piece)
    ELSE hostile

\* the pieces put back, on the restored position (unmake.rs 32-46)
undo_pieces(pos, undo, m, who) ==
    IF is_castling(m) THEN undo_castling(pos, m, who)
    ELSE with_perspective(pos, who, undo_friendly(friendly_of(pos, who), m),
                          undo_hostile(hostile_of(pos, who), m, undo, who))

\* unmake_move returns the position and the clock it wrote
unmake_move(pos, undo, clock) ==
    [pos |-> Position_update(undo_pieces(restore(pos, undo), undo, undo.move_to_undo,
                                         opposite(pos.player_to_move))),
     halfmove_clock |-> undo.halfmove_clock]

(***************************************************************************)
(* core/game.rs: the Game is the variables position, undos and             *)
(* halfmove_clock.                                                         *)
(***************************************************************************)
Game(pos, u, clock) == [position |-> pos, undos |-> u, halfmove_clock |-> clock]

\* Game::from_fen, on the parsed fields
Game_from_fen(w, b, side_to_move, castling, en_passant_square, clock) ==
    Game(from_fen(w, b, side_to_move, castling, en_passant_square), <<>>, clock)

\* mutant: the side to move is tested for check, not the side that moved
legality_wrong_side(g, made) ==
    IF is_king_in_check(made.pos, made.pos.player_to_move)
      THEN [game |-> [g EXCEPT !.position =
                        unmake_move(made.pos, made.undo, made.halfmove_clock).pos],
            ret  |-> FALSE]
      ELSE [game |-> Game(made.pos, Append(g.undos, made.undo), made.halfmove_clock),
            ret  |-> TRUE]

\* mutant: a rejected move is not unmade
legality_no_unmake(g, made) ==
    IF is_king_in_check(made.pos, opposite(made.pos.player_to_move))
      THEN [game |-> [g EXCEPT !.position = made.pos], ret |-> FALSE]
      ELSE [game |-> Game(made.pos, Append(g.undos, made.undo), made.halfmove_clock),
            ret  |-> TRUE]

\* the rest of try_to_make_move once make_move has run
legality(g, made) ==
    IF is_king_in_check(made.pos, opposite(made.pos.player_to_move))
      THEN [game |-> [g EXCEPT !.position =
                        unmake_move(made.pos, made.undo, made.halfmove_clock).pos],
            ret  |-> FALSE]
      ELSE [game |-> Game(made.pos, Append(g.undos, made.undo), made.halfmove_clock),
            ret  |-> TRUE]

\* Game::try_to_make_move: the Game it leaves and the value it returns
try_to_make_move(g, m) == legality(g, make_move(g.position, m, g.halfmove_clock))

unmade(g, un) == Game(un.pos, SubSeq(g.undos, 1, Len(g.undos) - 1), un.halfmove_clock)

\* mutant: the clock unmake_move restored is not written back
Game_unmake_move_keeps_clock(g) ==
    Game(unmake_move(g.position, g.undos[Len(g.undos)], g.halfmove_clock).pos,
         SubSeq(g.undos, 1, Len(g.undos) - 1), g.halfmove_clock)

\* Game::unmake_move (undos is not empty)
Game_unmake_move(g) ==
    unmade(g, unmake_move(g.position, g.undos[Len(g.undos)], g.halfmove_clock))

\* the loop of is_threefold_repetition: undos[i] down to undos[1]
RECURSIVE repetition_walk(_, _, _, _)
repetition_walk(u, i, current_hash, n) ==
    IF i = 0 THEN FALSE
    ELSE IF u[i].zobrist_hash = current_hash
        THEN IF n + 1 = 3 THEN TRUE
             ELSE repetition_walk(u, i - 1, current_hash, n + 1)
    ELSE repetition_walk(u, i - 1, current_hash, n)

\* mutant: the current occurrence is not counted
is_threefold_repetition_from_zero(g) ==
    repetition_walk(g.undos, Len(g.undos), g.position.zobrist_hash, 0)

is_threefold_repetition(g) ==
    repetition_walk(g.undos, Len(g.undos), g.position.zobrist_hash, 1)

is_fifty_move_rule(g) == g.halfmove_clock >= 100

(***************************************************************************)
(* core/rules/draw.rs                                                      *)
(***************************************************************************)
\* mutant: with three pieces the kind of the extra piece is not looked at
is_insufficient_material_any_third(pos) == count_all(pos.w) + count_all(pos.b) <= 3

is_insufficient_material(pos) ==
    LET total_pieces == count_all(pos.w) + count_all(pos.b)
        w_bishops == count(pos.w, "Bishop")
        w_knights == count(pos.w, "Knight")
        b_bishops == count(pos.b, "Bishop")
        b_knights == count(pos.b, "Knight")
        white_minors == w_bishops + w_knights
        black_minors == b_bishops + b_knights
    IN  IF total_pieces = 2 THEN TRUE
        ELSE IF total_pieces = 3
            THEN (white_minors = 1 /\ black_minors = 0) \/
                 (white_minors = 0 /\ black_minors = 1)
        ELSE IF total_pieces = 4 /\ w_bishops = 1 /\ b_bishops = 1
                /\ w_knights = 0 /\ b_knights = 0
            THEN is_square_color_white(lsb(pos.w.bishops)) =
                 is_square_color_white(lsb(pos.b.bishops))
        ELSE FALSE

(***************************************************************************)
(* core/perft.rs                                                           *)
(***************************************************************************)
\* u64::MAX, the 64 one-bits, written as the two's complement number
PERFT_INTERRUPTED == -1

\* a flag that is not set, a limit that does not elapse during the call
Never == -1

\* the value of an expression, computed once
The(values) == CHOOSE v \in values : TRUE

\* what a call leaves: the value it returns, the Game behind its &mut and
\* the number of loads of the stop flag so far
Counted(nodes, game, loads) == [nodes |-> nodes, game |-> game, loads |-> loads]

\* stop_flag.load: true from the load numbered from on (Never: never set)
Loads(from, loads) == from # Never /\ loads >= from

RECURSIVE perft(_, _, _, _, _)
\* the branch of one accepted move, counted with the move still on the board
perft_counts_unmade(game, made, moves, i, depth, n_calls, stop_flag, nodes, branches, loads) ==
    IF branches = PERFT_INTERRUPTED THEN Counted(PERFT_INTERRUPTED, made, loads)
    ELSE Counted(nodes + branches, made, loads)

\* lines 27-32: made is the Game the recursive call has left
perft_branch(game, made, moves, i, depth, n_calls, stop_flag, nodes, branches, loads) ==
    IF branches = PERFT_INTERRUPTED
      THEN Counted(PERFT_INTERRUPTED, Game_unmake_move(made), loads)
    ELSE Counted(nodes + branches, Game_unmake_move(made), loads)

\* line 26: the recursive call has returned
perft_returned(game, child, moves, i, depth, n_calls, stop_flag, nodes) ==
    perft_branch(game, child.game, moves, i, depth, n_calls, stop_flag, nodes,
                 child.nodes, child.loads)

\* lines 21-26: one move of the loop
perft_tried(game, r, moves, i, depth, n_calls, stop_flag, nodes, loads) ==
    IF ~r.ret
      THEN Counted(nodes, r.game, loads)
      ELSE perft_returned(game, perft(r.game, depth - 1, n_calls + 1, stop_flag, loads),
                          moves, i, depth, n_calls, stop_flag, nodes)

\* lines 20-33: the moves lo..hi of the loop, in order, from the count st
\* the earlier moves have left; PERFT_INTERRUPTED has returned from the loop
RECURSIVE perft_loop(_, _, _, _, _, _, _)
perft_loop(st, moves, lo, hi, depth, n_calls, stop_flag) ==
    IF st.nodes = PERFT_INTERRUPTED THEN st
    ELSE IF lo = hi
      THEN The({perft_tried(st.game, r, moves, lo, depth, n_calls, stop_flag, st.nodes,
                            st.loads) :
                  r \in {try_to_make_move(st.game, moves[lo])}})
    ELSE The({perft_loop(half, moves, (lo + hi) \div 2 + 1, hi, depth, n_calls, stop_flag) :
                half \in {perft_loop(st, moves, lo, (lo + hi) \div 2, depth, n_calls,
                                     stop_flag)}})

\* lines 18-35: the move list and the loop over it
perft_moves(game, moves, depth, n_calls, stop_flag, loads) ==
    IF moves = <<>> THEN Counted(0, game, loads)
    ELSE perft_loop(Counted(0, game, loads), moves, 1, Len(moves), depth, n_calls,
                    stop_flag)

\* perft: stop_flag is the load from which the flag is set, loads the
\* number of loads before the call
perft(game, depth, n_calls, stop_flag, loads) ==
    IF Loads(stop_flag, loads) THEN Counted(PERFT_INTERRUPTED, game, loads + 1)
    ELSE IF depth = 0 THEN Counted(1, game, loads + 1)
    ELSE perft_moves(game, pseudo_moves(game.position), depth, n_calls, stop_flag,
                     loads + 1)

(***************************************************************************)
(* core/evaluate.rs, constants.rs                                          *)
(***************************************************************************)
CHECKMATE_EVAL == 2000000000
DRAW_EVAL == 0
I32_MAX == 2147483647
I32_MIN == -I32_MAX - 1

RECURSIVE material(_, _, _)
material(pos, pcs, score) ==
    IF pcs = <<>> THEN score
    ELSE material(pos, Tail(pcs),
                  score + Piece_value(Head(pcs)) * count(pos.w, Head(pcs))
                        - Piece_value(Head(pcs)) * count(pos.b, Head(pcs)))

evaluate(pos) == material(pos, all_variants, 0)

(***************************************************************************)
(* core/game.rs: the search.  The node counter is threaded through the     *)
(* calls.  The stop flag and the clock belong to the environment: env says *)
(* from which value of the node counter on a load of the flag reads true   *)
(* (stop_from) and from which value on the time limit has elapsed          *)
(* (deadline_from), Never when it does not happen during the call.  A      *)
(* result carries, besides the tuple the code returns, the counter and the *)
(* checkmates scored below the node (remaining depth, score, mated side).  *)
(***************************************************************************)
\* None of Option<Move>
NoMove == [from |-> NoSquare, to |-> NoSquare, pieces_field |-> 0, flags |-> 0]

\* line 135: the counter values at which the flag and the clock are read
POLL_INTERVAL == 1024

Environment(stop_from, deadline_from) ==
    [stop_from |-> stop_from, deadline_from |-> deadline_from]

Fires(from, nodes) == from # Never /\ nodes >= from

\* what a call leaves: the tuple it returns, the node counter, the mates
\* it scored and the Game behind its &mut self
Result(best_move, eval, pv, unwind, nodes, mates, game) ==
    [best_move |-> best_move, eval |-> eval, pv |-> pv, unwind |-> unwind,
     nodes |-> nodes, mates |-> mates, game |-> game]

Max(a, b) == IF a >= b THEN a ELSE b
Min(a, b) == IF a <= b THEN a ELSE b

Best(eval, m, pv) == [eval |-> eval, move |-> m, pv |-> pv]

checkmate_eval(player, depth) ==
    IF player = "White" THEN -CHECKMATE_EVAL + depth ELSE CHECKMATE_EVAL - depth

\* lines 199-213: after the loop
no_legal_move(game, depth, nodes, mates, eval) ==
    IF is_king_in_check(game.position, game.position.player_to_move)
      THEN Result(NoMove, eval, <<>>, FALSE, nodes,
                  mates \cup {[depth |-> depth, eval |-> eval,
                               mated |-> game.position.player_to_move]}, game)
      ELSE Result(NoMove, DRAW_EVAL, <<>>, FALSE, nodes, mates, game)

after_loop(game, depth, best, found_legal_move, nodes, mates) ==
    IF ~found_legal_move
      THEN no_legal_move(game, depth, nodes, mates,
                         checkmate_eval(game.position.player_to_move, depth))
      ELSE Result(best.move, best.eval, best.pv, FALSE, nodes, mates, game)

\* the loop over the moves between two iterations: what the next one finds
Looping(game, alpha, beta, nodes, best, found, mates) ==
    [game |-> game, alpha |-> alpha, beta |-> beta, nodes |-> nodes, best |-> best,
     found |-> found, mates |-> mates]

\* the loop goes on: nothing has returned from it or broken it
Continues(st) == "found" \in DOMAIN st

RECURSIVE minimax_alphabeta(_, _, _, _, _, _, _)
\* lines 194-196: the cut-off
cut_off(game, moves, i, depth, alpha, beta, maximize, env, nodes, best, mates) ==
    IF beta <= alpha
      THEN after_loop(game, depth, best, TRUE, nodes, mates)
      ELSE Looping(game, alpha, beta, nodes, best, TRUE, mates)

\* a score that only equals the best one replaces it
is_no_worse(maximize, eval, best_eval) ==
    IF maximize THEN eval >= best_eval ELSE eval <= best_eval

is_better(maximize, eval, best_eval) ==
    IF maximize THEN eval > best_eval ELSE eval < best_eval

\* lines 171-192: the move is unmade; game is the Game after unmake_move
child_returned(game, child, moves, i, depth, alpha, beta, maximize, env, best, mates) ==
    IF child.unwind
      THEN Result(NoMove, best.eval, <<>>, TRUE, child.nodes, mates \cup child.mates,
                  game)
      ELSE cut_off(game, moves, i, depth,
                   IF maximize THEN Max(alpha, child.eval) ELSE alpha,
                   IF maximize THEN beta ELSE Min(beta, child.eval),
                   maximize, env, child.nodes,
                   IF is_better(maximize, child.eval, best.eval)
                     THEN Best(child.eval, moves[i], Append(child.pv, moves[i]))
                     ELSE best,
                   mates \cup child.mates)

\* the recursive call's Game taken as it is, the move still on the board
child_left_made(child, moves, i, depth, alpha, beta, maximize, env, best, mates) ==
    child_returned(child.game, child, moves, i, depth, alpha, beta, maximize, env, best,
                   mates)

\* lines 160-170: the recursive call has returned; unmake_move on the Game
\* it has left
child_called(child, moves, i, depth, alpha, beta, maximize, env, best, mates) ==
    child_returned(Game_unmake_move(child.game), child, moves, i, depth, alpha,
                   beta, maximize, env, best, mates)

\* lines 153-170: one move of the loop
move_tried(r, moves, i, depth, alpha, beta, maximize, env, nodes, best, found, mates) ==
    IF ~r.ret
      THEN Looping(r.game, alpha, beta, nodes, best, found, mates)
      ELSE child_called(minimax_alphabeta(r.game, depth - 1, alpha, beta, ~maximize,
                                          env, nodes),
                        moves, i, depth, alpha, beta, maximize, env, best, mates)

\* lines 152-197: the moves lo..hi of the loop, in order, from what the
\* earlier moves have left; a return or a break ends the loop
RECURSIVE search_loop(_, _, _, _, _, _, _)
search_loop(st, moves, lo, hi, depth, maximize, env) ==
    IF ~Continues(st) THEN st
    ELSE IF lo = hi
      THEN The({move_tried(r, moves, lo, depth, st.alpha, st.beta, maximize, env,
                           st.nodes, st.best, st.found, st.mates) :
                  r \in {try_to_make_move(st.game, moves[lo])}})
    ELSE The({search_loop(half, moves, (lo + hi) \div 2 + 1, hi, depth, maximize, env) :
                half \in {search_loop(st, moves, lo, (lo + hi) \div 2, depth, maximize,
                                      env)}})

\* lines 199-213: the loop has run through every move
loop_left(st, depth) ==
    IF Continues(st)
      THEN after_loop(st.game, depth, st.best, st.found, st.nodes, st.mates)
      ELSE st

\* lines 147-213: the move list, the loop over it and what follows
search_moves(game, moves, depth, alpha, beta, maximize, env, nodes, best) ==
    IF moves = <<>> THEN after_loop(game, depth, best, FALSE, nodes, {})
    ELSE The({loop_left(st, depth) :
                st \in {search_loop(Looping(game, alpha, beta, nodes, best, FALSE, {}),
                                    moves, 1, Len(moves), depth, maximize, env)}})

\* lines 135-145: the flag and the clock are read when the counter is a
\* multiple of POLL_INTERVAL
poll(env, nodes) ==
    nodes % POLL_INTERVAL = 0 /\ (Fires(env.stop_from, nodes) \/ Fires(env.deadline_from, nodes))

\* lines 123-147: the node after the counter is incremented
visit(game, depth, alpha, beta, maximize, env, nodes) ==
    IF \/ is_threefold_repetition(game)
       \/ is_fifty_move_rule(game)
       \/ is_insufficient_material(game.position)
      THEN Result(NoMove, DRAW_EVAL, <<>>, FALSE, nodes, {}, game)
    ELSE IF depth = 0
      THEN Result(NoMove, evaluate(game.position), <<>>, FALSE, nodes, {}, game)
    ELSE IF poll(env, nodes)
      THEN Result(NoMove, evaluate(game.position), <<>>, TRUE, nodes, {}, game)
    ELSE search_moves(game, pseudo_moves(game.position), depth, alpha, beta,
                      maximize, env, nodes,
                      Best(IF maximize THEN I32_MIN ELSE I32_MAX, NoMove, <<>>))

minimax_alphabeta(game, depth, alpha, beta, maximize, env, nodes) ==
    visit(game, depth, alpha, beta, maximize, env, nodes + 1)

find_best_move(game, depth, env) ==
    minimax_alphabeta(game, depth, I32_MIN, I32_MAX,
                      game.position.player_to_move = "White", env, 0)

(***************************************************************************)
(* uci.rs: iterative_deepening.  The stop flag is set, and the time limit  *)
(* elapses, at an instant of the run: the iteration and the value of its   *)
(* node counter (Never: not during the run; a counter value the iteration  *)
(* does not reach: after its search and before the test that follows it).  *)
(* The result carries last_move, the info lines printed and, for the       *)
(* claims, the outcome of every iteration run.                             *)
(***************************************************************************)
Instant(iteration, nodes) == [iteration |-> iteration, nodes |-> nodes]

NoInstant == Instant(Never, Never)

\* the counter value of the iteration from which the event has happened
FromNode(at, depth) ==
    IF at.iteration = Never \/ at.iteration > depth THEN Never
    ELSE IF at.iteration < depth THEN 0
    ELSE at.nodes

\* the event has happened when the iteration's search has returned
Happened(at, depth) == at.iteration # Never /\ at.iteration <= depth

Deepening(last_move, info, iterations) ==
    [last_move |-> last_move, info |-> info, iterations |-> iterations]

RECURSIVE deepening_loop(_, _, _, _, _, _)
\* lines 248-252: the test of the time limit that ends the loop body
after_info(game, depth, max_depth, stop_at, deadline_at, acc) ==
    IF Happened(deadline_at, depth) THEN acc
    ELSE deepening_loop(game, depth + 1, max_depth, stop_at, deadline_at, acc)

\* lines 240-246: the test of the stop flag, last_move and the info line
searched(game, depth, max_depth, stop_at, deadline_at, acc, r) ==
    IF Happened(stop_at, depth)
      THEN Deepening(acc.last_move, acc.info,
                     Append(acc.iterations, [depth |-> depth, result |-> r]))
      ELSE after_info(r.game, depth, max_depth, stop_at, deadline_at,
                      Deepening(r.best_move,
                                Append(acc.info, [depth |-> depth, eval |-> r.eval,
                                                  nodes |-> r.nodes]),
                                Append(acc.iterations, [depth |-> depth, result |-> r])))

\* lines 225-238: the depth cap and the search of one iteration
deepening_loop(game, depth, max_depth, stop_at, deadline_at, acc) ==
    IF max_depth # Never /\ depth > max_depth THEN acc
    ELSE searched(game, depth, max_depth, stop_at, deadline_at, acc,
                  find_best_move(game, depth,
                                 Environment(FromNode(stop_at, depth),
                                             FromNode(deadline_at, depth))))

iterative_deepening(game, max_depth, stop_at, deadline_at) ==
    deepening_loop(game, 1, max_depth, stop_at, deadline_at,
                   Deepening(NoMove, <<>>, <<>>))

(***************************************************************************)
(* The Games the model starts from: Game::default() and Game::from_fen on  *)
(* the FENs below.                                                         *)
(***************************************************************************)
Placement(pawns, knights, bishops, rooks, queens, king) ==
    [all |-> {}, pawns |-> pawns, knights |-> knights, bishops |-> bishops,
     rooks |-> rooks, queens |-> queens, king |-> king]

\* Position::start()
Position_start ==
    LET pos == [w |-> [all |-> 0..15, pawns |-> 8..15, knights |-> {1, 6},
                       bishops |-> {2, 5}, rooks |-> {0, 7}, queens |-> {3},
                       king |-> {4}],
                b |-> [all |-> 48..63, pawns |-> 48..55, knights |-> {57, 62},
                       bishops |-> {58, 61}, rooks |-> {56, 63}, queens |-> {59},
                       king |-> {60}],
                occupied |-> (0..15) \cup (48..63),
                player_to_move |-> "White",
                en_passant_square |-> NoSquare,
                castling |-> AllRights,
                zobrist_hash |-> {}]
    IN  [pos EXCEPT !.zobrist_hash = zobrist_hash(pos)]

\* Game::default()
Game_default == Game(Position_start, <<>>, 0)

\* r3k3/8/8/8/8/8/8/R3K2R w KQq - 3 1
GameCastling ==
    Game_from_fen(Placement({}, {}, {}, {0, 7}, {}, {4}),
                  Placement({}, {}, {}, {56}, {}, {60}),
                  "White", [AllRights EXCEPT !.black_kingside = FALSE], NoSquare, 3)

\* n3k3/1P6/8/5Pp1/2p5/8/3P4/4K3 w - g6 5 1
GamePawns ==
    Game_from_fen(Placement({49, 37, 11}, {}, {}, {}, {}, {4}),
                  Placement({38, 26}, {56}, {}, {}, {}, {60}),
                  "White", NoRights, 46, 5)

\* 4k2r/8/8/8/8/8/p7/1N2K2R b Kk - 0 1
GameBlack ==
    Game_from_fen(Placement({}, {1}, {}, {7}, {}, {4}),
                  Placement({8}, {}, {}, {63}, {}, {60}),
                  "Black", [NoRights EXCEPT !.white_kingside = TRUE,
                                            !.black_kingside = TRUE], NoSquare, 0)

\* 4k3/4q3/8/8/8/8/4B3/4K3 w - - 7 1
GamePin ==
    Game_from_fen(Placement({}, {}, {12}, {}, {}, {4}),
                  Placement({}, {}, {}, {}, {52}, {60}),
                  "White", NoRights, NoSquare, 7)

\* 8/2r5/8/4k3/8/6R1/3K4/8 w - - 0 1
GameShuffle ==
    Game_from_fen(Placement({}, {}, {}, {22}, {}, {11}),
                  Placement({}, {}, {}, {50}, {}, {36}),
                  "White", NoRights, NoSquare, 0)

\* R6k/8/6K1/8/8/8/8/8 b - - 0 1: Black is checkmated
GameMated ==
    Game_from_fen(Placement({}, {}, {}, {56}, {}, {46}),
                  Placement({}, {}, {}, {}, {}, {63}),
                  "Black", NoRights, NoSquare, 0)

\* R6k/8/6K1/8/8/8/8/8 b - - 100 1: checkmated with a hundred quiet half-moves
GameMatedFifty ==
    Game_from_fen(Placement({}, {}, {}, {56}, {}, {46}),
                  Placement({}, {}, {}, {}, {}, {63}),
                  "Black", NoRights, NoSquare, 100)

\* 8/8/8/8/8/6k1/8/r6K w - - 0 1: White is checkmated
GameWhiteMated ==
    Game_from_fen(Placement({}, {}, {}, {}, {}, {7}),
                  Placement({}, {}, {}, {0}, {}, {22}),
                  "White", NoRights, NoSquare, 0)

\* 7k/5Q2/6K1/8/8/8/8/8 b - - 0 1: Black is stalemated
GameStalemate ==
    Game_from_fen(Placement({}, {}, {}, {}, {53}, {46}),
                  Placement({}, {}, {}, {}, {}, {63}),
                  "Black", NoRights, NoSquare, 0)

\* k7/8/1K6/8/8/8/8/7R b - - 0 1: a8-b8 is Black's only legal move
GameForced ==
    Game_from_fen(Placement({}, {}, {}, {7}, {}, {41}),
                  Placement({}, {}, {}, {}, {}, {56}),
                  "Black", NoRights, NoSquare, 0)

\* k7/8/1K6/8/8/8/8/7R b - - 100 1: the same after a hundred quiet half-moves
GameForcedFifty ==
    Game_from_fen(Placement({}, {}, {}, {7}, {}, {41}),
                  Placement({}, {}, {}, {}, {}, {56}),
                  "Black", NoRights, NoSquare, 100)

\* 7k/8/6K1/8/8/8/8/R7 w - - 0 1: a1-a8 mates at once, a1-b1 in three plies
GameMateRace ==
    Game_from_fen(Placement({}, {}, {}, {0}, {}, {46}),
                  Placement({}, {}, {}, {}, {}, {63}),
                  "White", NoRights, NoSquare, 0)

\* R7/4k3/8/8/8/8/8/R3K3 w Q - 0 1: a second white rook stands on a8
GameRookAway ==
    Game_from_fen(Placement({}, {}, {}, {0, 56}, {}, {4}),
                  Placement({}, {}, {}, {}, {}, {52}),
                  "White", [NoRights EXCEPT !.white_queenside = TRUE], NoSquare, 0)

\* r3k3/8/8/8/8/8/1p6/R3K3 b Qq - 0 1: a black pawn can take the rook on a1
GameCorner ==
    Game_from_fen(Placement({}, {}, {}, {0}, {}, {4}),
                  Placement({9}, {}, {}, {56}, {}, {60}),
                  "Black", [NoRights EXCEPT !.white_queenside = TRUE,
                                            !.black_queenside = TRUE], NoSquare, 0)

\* 4k3/8/3p4/8/4N3/8/8/4K3 w - - 0 1: the knight can take the pawn on d6
GameKnight ==
    Game_from_fen(Placement({}, {28}, {}, {}, {}, {4}),
                  Placement({43}, {}, {}, {}, {}, {60}),
                  "White", NoRights, NoSquare, 0)

\* 4k3/8/5n2/3p4/4P3/2N5/8/4K3 b - - 0 1: pawns and knights that can take
\* one another
GameExchange ==
    Game_from_fen(Placement({28}, {18}, {}, {}, {}, {4}),
                  Placement({35}, {45}, {}, {}, {}, {60}),
                  "Black", NoRights, NoSquare, 0)

InitialGames == {Game_default, GameCastling, GamePawns, GameBlack, GamePin}

\* the moves a caller hands to try_to_make_move: the pseudo-legal moves of
\* the six piece types and the castling moves
MoveInputs(pos) ==
    generate_pseudo_pawn_moves(pos) \cup castling_moves(pos) \cup
    UNION {generate_pseudo_moves_for_piece(pos, p) :
              p \in {"Knight", "Bishop", "Rook", "Queen", "King"}}

\* the rook shuffle: moves among e3, f3, g3 and c5, c6, c7
ShuffleSquares == {20, 21, 22, 34, 42, 50}

ShuffleInputs(pos) ==
    {m \in MoveInputs(pos) : m.from \in ShuffleSquares /\ m.to \in ShuffleSquares}

\* the position without its hash
Board(pos) == [w |-> pos.w, b |-> pos.b, occupied |-> pos.occupied,
               player_to_move |-> pos.player_to_move,
               en_passant_square |-> pos.en_passant_square,
               castling |-> pos.castling]

CurrentGame == Game(position, undos, halfmove_clock)

(***************************************************************************)
(* Text.  A string is the sequence of its characters; the strings of the   *)
(* inputs are ASCII, a character is one byte.                              *)
(***************************************************************************)
Digits == <<"0", "1", "2", "3", "4", "5", "6", "7", "8", "9">>

Lower ==
    <<"a", "b", "c", "d", "e", "f", "g", "h", "i", "j", "k", "l", "m", "n", "o", "p",
      "q", "r", "s", "t", "u", "v", "w", "x", "y", "z">>

Upper ==
    <<"A", "B", "C", "D", "E", "F", "G", "H", "I", "J", "K", "L", "M", "N", "O", "P",
      "Q", "R", "S", "T", "U", "V", "W", "X", "Y", "Z">>

Chars(s) == {s[i] : i \in 1..Len(s)}

IndexOf(s, c) == CHOOSE i \in 1..Len(s) : s[i] = c

\* char as u8
as_u8(c) ==
    IF c \in Chars(Digits) THEN 47 + IndexOf(Digits, c)
    ELSE IF c \in Chars(Upper) THEN 64 + IndexOf(Upper, c)
    ELSE IF c \in Chars(Lower) THEN 96 + IndexOf(Lower, c)
    ELSE CASE c = "+" -> 43 [] c = "-" -> 45 [] c = "/" -> 47

\* Option: None and Some(value)
None == [some |-> FALSE, value |-> 0]

Some(value) == [some |-> TRUE, value |-> value]

is_ascii_digit(c) == c \in Chars(Digits)

\* char::to_digit(10)
to_digit(c) == IF is_ascii_digit(c) THEN Some(as_u8(c) - as_u8("0")) ELSE None

\* str::parse::<u32>() and ::<usize>(): an optional + and at least one digit;
\* the numbers of the inputs have fewer than ten digits
RECURSIVE parse_digits(_, _, _)
parse_digits(s, i, value) ==
    IF i > Len(s) THEN Some(value)
    ELSE IF ~is_ascii_digit(s[i]) \/ i > 9 THEN None
    ELSE parse_digits(s, i + 1, 10 * value + to_digit(s[i]).value)

parse(s) ==
    IF s = <<>> THEN None
    ELSE IF s[1] = "+" THEN (IF Len(s) = 1 THEN None ELSE parse_digits(Tail(s), 1, 0))
    ELSE parse_digits(s, 1, 0)

\* str::split(sep)
RECURSIVE split(_, _, _, _, _)
split(s, sep, i, part, parts) ==
    IF i > Len(s) THEN Append(parts, part)
    ELSE IF s[i] = sep THEN split(s, sep, i + 1, <<>>, Append(parts, part))
    ELSE split(s, sep, i + 1, Append(part, s[i]), parts)

(***************************************************************************)
(* utility.rs: the squares as text.  A call returns a value or panics; a   *)
(* u8 subtraction below zero panics in a build with overflow checks and    *)
(* wraps in a build without them.                                          *)
(***************************************************************************)
Gives(value) == [panic |-> FALSE, value |-> value]

Panicked == [panic |-> TRUE, value |-> NoSquare]

sub_u8(a, b, overflow_checks) ==
    IF a >= b THEN Gives(a - b)
    ELSE IF overflow_checks THEN Panicked
    ELSE Gives(a - b + 256)

\* format!("{}{}", (file + b'a') as char, rank + 1)
square_idx_to_string(sq) == <<Lower[(sq % 8) + 1], Digits[(sq \div 8) + 2]>>

\* lines 28-31: None is NoSquare
square_of(file, rank) ==
    IF file.panic \/ rank.panic THEN Panicked
    ELSE IF file.value > 7 \/ rank.value > 7 THEN Gives(NoSquare)
    ELSE Gives(rank.value * 8 + file.value)

\* lines 22-32
square_string_to_idx(sq, overflow_checks) ==
    IF Len(sq) # 2 THEN Gives(NoSquare)
    ELSE IF sub_u8(as_u8(sq[1]), as_u8("a"), overflow_checks).panic THEN Panicked
    ELSE IF ~to_digit(sq[2]).some THEN Panicked
    ELSE square_of(sub_u8(as_u8(sq[1]), as_u8("a"), overflow_checks),
                   sub_u8(to_digit(sq[2]).value, 1, overflow_checks))

(***************************************************************************)
(* core/position.rs: validate_fen and from_fen on the fields of a FEN,     *)
(* parts is what split_whitespace gives.                                   *)
(***************************************************************************)
PieceChars == {"p", "n", "b", "r", "q", "k", "P", "N", "B", "R", "Q", "K"}

\* lines 125-138: the files of one rank
RECURSIVE file_count(_, _, _)
file_count(rank, i, files) ==
    IF i > Len(rank) THEN (IF files = 8 THEN "Ok" ELSE "BadFileCount")
    ELSE IF is_ascii_digit(rank[i])
      THEN file_count(rank, i + 1, files + to_digit(rank[i]).value)
    ELSE IF rank[i] \in PieceChars THEN file_count(rank, i + 1, files + 1)
    ELSE "InvalidPieceChar"

\* lines 124-139: the ranks in order
RECURSIVE validate_ranks(_, _)
validate_ranks(ranks, i) ==
    IF i > Len(ranks) THEN "Ok"
    ELSE IF file_count(ranks[i], 1, 0) # "Ok" THEN file_count(ranks[i], 1, 0)
    ELSE validate_ranks(ranks, i + 1)

\* lines 149-151
validate_en_passant(en_passant, square) ==
    IF en_passant = <<"-">> THEN "Ok"
    ELSE IF square.panic THEN "panic"
    ELSE IF square.value = NoSquare THEN "InvalidEnPassant"
    ELSE "Ok"

\* lines 153-159
validate_clocks(halfmove, fullmove) ==
    IF ~parse(halfmove).some THEN "InvalidHalfmove"
    ELSE IF ~parse(fullmove).some \/ parse(fullmove).value < 1 THEN "InvalidFullmove"
    ELSE "Ok"

\* lines 141-159: the fields after the placement
validate_fields(side, castling, en_passant, halfmove, fullmove, overflow_checks) ==
    IF side # <<"w">> /\ side # <<"b">> THEN "InvalidSide"
    ELSE IF castling # <<"-">> /\ ~(Chars(castling) \subseteq {"K", "Q", "k", "q"})
      THEN "InvalidCastling"
    ELSE IF validate_en_passant(en_passant,
                                square_string_to_idx(en_passant, overflow_checks)) # "Ok"
      THEN validate_en_passant(en_passant,
                               square_string_to_idx(en_passant, overflow_checks))
    ELSE validate_clocks(halfmove, fullmove)

\* lines 111-162: "Ok", the kind of the FenParseError, or "panic"
validate_fen(parts, overflow_checks) ==
    IF Len(parts) # 6 THEN "BadFieldCount"
    ELSE IF Len(split(parts[1], "/", 1, <<>>, <<>>)) # 8 THEN "BadRankCount"
    ELSE IF validate_ranks(split(parts[1], "/", 1, <<>>, <<>>), 1) # "Ok"
      THEN validate_ranks(split(parts[1], "/", 1, <<>>, <<>>), 1)
    ELSE validate_fields(parts[2], parts[3], parts[4], parts[5], parts[6],
                         overflow_checks)

\* CastlingRights::from_string
CastlingRights_from_string(s) ==
    [white_kingside |-> "K" \in Chars(s), white_queenside |-> "Q" \in Chars(s),
     black_kingside |-> "k" \in Chars(s), black_queenside |-> "q" \in Chars(s)]

\* lines 182-212: the board, from the top-left; placed maps a piece
\* character to the squares it stands on
RECURSIVE place(_, _, _, _, _)
place(board, i, rank, file, placed) ==
    IF i > Len(board) THEN placed
    ELSE IF board[i] = "/" THEN place(board, i + 1, rank - 1, 0, placed)
    ELSE IF is_ascii_digit(board[i])
      THEN place(board, i + 1, rank, file + to_digit(board[i]).value, placed)
    ELSE place(board, i + 1, rank, file + 1,
               [placed EXCEPT ![board[i]] = @ \cup {rank * 8 + file}])

BitboardSet_of(placed, p, n, b, r, q, k) ==
    [all |-> {}, pawns |-> placed[p], knights |-> placed[n], bishops |-> placed[b],
     rooks |-> placed[r], queens |-> placed[q], king |-> placed[k]]

FenResult(err, game) == [err |-> err, game |-> game]

\* Position::from_fen after validate_fen, and Game::from_fen around it
Game_parsed(parts, placed) ==
    Game_from_fen(BitboardSet_of(placed, "P", "N", "B", "R", "Q", "K"),
                  BitboardSet_of(placed, "p", "n", "b", "r", "q", "k"),
                  IF parts[2] = <<"w">> THEN "White" ELSE "Black",
                  CastlingRights_from_string(parts[3]),
                  IF parts[4] = <<"-">> THEN NoSquare
                  ELSE square_string_to_idx(parts[4], FALSE).value,
                  parse(parts[5]).value)

\* Position::from_fen and Game::from_fen on the text: the Game is
\* Game::default() where there is none
Game_from_fen_text(parts, overflow_checks) ==
    IF validate_fen(parts, overflow_checks) # "Ok"
      THEN FenResult(validate_fen(parts, overflow_checks), Game_default)
      ELSE FenResult("Ok", Game_parsed(parts, place(parts[1], 1, 7, 0,
                                                    [c \in PieceChars |-> {}])))

(***************************************************************************)
(* core/chess_move.rs, core/piece.rs: Move::to_string; core/game.rs:       *)
(* try_to_make_uci_move; uci.rs: position.  tokens is the command line     *)
(* split at white space, tokens[1] is "position" (the code counts from 0). *)
(***************************************************************************)
Piece_to_char(p) ==
    CASE p = "Pawn" -> "p" [] p = "Knight" -> "n" [] p = "Bishop" -> "b"
      [] p = "Rook" -> "r" [] p = "Queen" -> "q" [] p = "King" -> "k"

Move_to_string(m) ==
    square_idx_to_string(m.from) \o square_idx_to_string(m.to) \o
    (IF promotion(m) = NoPiece THEN <<>> ELSE <<Piece_to_char(promotion(m))>>)

\* game.rs 78-83: the first generated move with the text is tried
first_match(game, moves, matching) ==
    IF matching = {} THEN [game |-> game, ret |-> FALSE]
    ELSE try_to_make_move(game, moves[lsb(matching)])

try_to_make_uci_move(game, text) ==
    The({first_match(game, moves,
                     {i \in 1..Len(moves) : Move_to_string(moves[i]) = text}) :
           moves \in {pseudo_moves(game.position)}})

RECURSIVE make_uci_moves(_, _, _)
\* the loop ends at the first token that makes no move
uci_move_needed(r, tokens, i) ==
    IF r.ret THEN make_uci_moves(r.game, tokens, i + 1) ELSE r.game

\* uci.rs 70: what try_to_make_uci_move returns is dropped
uci_move_tried(r, tokens, i) == make_uci_moves(r.game, tokens, i + 1)

\* uci.rs 69-71
make_uci_moves(game, tokens, i) ==
    IF i > Len(tokens) THEN game
    ELSE The({uci_move_tried(r, tokens, i) :
                r \in {try_to_make_uci_move(game, tokens[i])}})

\* uci.rs 68-72: i counts the tokens from 1
moves_of(game, tokens, i) ==
    IF i <= Len(tokens) /\ tokens[i] = <<"m", "o", "v", "e", "s">>
      THEN make_uci_moves(game, tokens, i + 1)
      ELSE game

\* what the command leaves: the Game, and whether the process has aborted
Outcome(game, aborted) == [game |-> game, aborted |-> aborted]

\* the moves are made after a FEN that did not parse
position_fen_moves_anyway(game, tokens, parsed) ==
    IF parsed.err = "panic" THEN Outcome(game, TRUE)
    ELSE IF parsed.err # "Ok" THEN Outcome(moves_of(game, tokens, 9), FALSE)
    ELSE Outcome(moves_of(parsed.game, tokens, 9), FALSE)

\* uci.rs 50-59
position_fen(game, tokens, parsed) ==
    IF parsed.err = "panic" THEN Outcome(game, TRUE)
    ELSE IF parsed.err # "Ok" THEN Outcome(game, FALSE)
    ELSE Outcome(moves_of(parsed.game, tokens, 9), FALSE)

\* uci.rs 37-73: tokens[2..=7].join(" ") is split again by validate_fen
\* and from_fen into the six tokens it was joined from
position_command(game, tokens, overflow_checks) ==
    IF Len(tokens) < 2 THEN Outcome(game, FALSE)
    ELSE IF tokens[2] = <<"f", "e", "n">>
      THEN IF Len(tokens) < 8 THEN Outcome(game, FALSE)
           ELSE position_fen(game, tokens,
                             Game_from_fen_text(SubSeq(tokens, 3, 8), overflow_checks))
    ELSE IF tokens[2] = <<"s", "t", "a", "r", "t", "p", "o", "s">>
      THEN Outcome(moves_of(Game_default, tokens, 3), FALSE)
    ELSE Outcome(game, FALSE)

\* uci.rs 22-24
ucinewgame(game) == Game_default

(***************************************************************************)
(* uci.rs: the command loop (main thread) and the workers it spawns.  uci  *)
(* holds the stop flag, the join handle search_thread (the index of a      *)
(* thread, NoThread for None), the threads spawned so far, and where the   *)
(* main thread stands: idle between commands, or in stop_search between    *)
(* the store of true and the return of join, with the go command that      *)
(* called it pending.  A thread is a record of the closure's variables,    *)
(* its position in the closure (pc) and the lines it has printed.          *)
(***************************************************************************)
NoThread == 0

UciIdle ==
    [stop_flag |-> FALSE, search_thread |-> NoThread, threads |-> <<>>,
     pc |-> "idle", pending |-> "none", depth |-> 0]

Thread(kind, game, pc, depth, max_depth, time_limit) ==
    [kind |-> kind, game |-> game, pc |-> pc, depth |-> depth,
     max_depth |-> max_depth, time_limit |-> time_limit, elapsed |-> FALSE,
     last_move |-> NoMove, result |-> NoMove, out |-> <<>>]

\* go (lines 144-168): the thread each go variant spawns
spawned(kind, game, depth) ==
    CASE kind = "perft"    -> Thread("go_perft", game, "perft", depth, Never, FALSE)
      [] kind = "movetime" -> Thread("go_movetime", game, "loop", 1, Never, TRUE)
      [] kind = "depth"    -> Thread("go_depth", game, "loop", 1, depth, FALSE)
      [] kind = "infinite" -> Thread("go_infinite", game, "loop", 1, Never, FALSE)
      [] kind = "wtime_btime" -> Thread("go_movetime", game, "loop", 1, Never, TRUE)

\* stop_search, line 30
store_true(u, kind, depth) ==
    [u EXCEPT !.stop_flag = TRUE, !.pc = "join", !.pending = kind, !.depth = depth]

\* a join that does not wait for the thread
join_returns_at_once(u) == TRUE

\* stop_search, lines 31-33: join returns when the thread has finished
join_returns(u) ==
    IF u.search_thread = NoThread THEN TRUE ELSE u.threads[u.search_thread].pc = "done"

\* stop_search, line 34, and the rest of go_*: clone and spawn
store_false_and_spawn(u, game) ==
    IF u.pending = "none"
      THEN [u EXCEPT !.stop_flag = FALSE, !.search_thread = NoThread, !.pc = "idle"]
      ELSE [u EXCEPT !.stop_flag = FALSE, !.pc = "idle", !.pending = "none", !.depth = 0,
                     !.threads = Append(u.threads, spawned(u.pending, game, u.depth)),
                     !.search_thread = Len(u.threads) + 1]

\* print_best_move prints nothing when there is no move
print_best_move_drops_none(best_move) ==
    IF best_move # NoMove THEN <<<<"bestmove", best_move.from, best_move.to>>>> ELSE <<>>

\* print_best_move: the line printed
print_best_move(best_move) ==
    IF best_move # NoMove THEN <<<<"bestmove", best_move.from, best_move.to>>>>
    ELSE <<<<"bestmove", "0000">>>>

\* the depth counter of a loop without cap stays at MaxDepthCap
next_depth(t) ==
    IF t.max_depth = Never /\ t.depth >= MaxDepthCap THEN t.depth ELSE t.depth + 1

search_returned(t, r) ==
    [t EXCEPT !.result = r.best_move, !.game = r.game, !.pc = "searched"]

\* the games the commands are given on
UciGames == {GameForced, GameMated, GameStalemate}

\* the searches a worker can run: find_best_move on its game at each depth,
\* with the flag set or clear and the time limit elapsed or not when it starts
Searches ==
    [g \in UciGames, depth \in 1..MaxDepthCap, stop \in BOOLEAN, elapsed \in BOOLEAN |->
        find_best_move(g, depth, Environment(IF stop THEN 0 ELSE Never,
                                             IF elapsed THEN 0 ELSE Never))]

\* the node counts of go perft: perft on the game, the flag set or clear
Perfts ==
    [g \in UciGames, depth \in 1..MaxDepthCap, stop \in BOOLEAN |->
        perft(g, depth, 0, IF stop THEN 0 ELSE Never, 0).nodes]

\* the worker searches the Game of the main thread, not its clone
loop_head_on_main(t, stop_flag) ==
    IF t.max_depth # Never /\ t.depth > t.max_depth
      THEN [t EXCEPT !.pc = "print"]
      ELSE search_returned(t, find_best_move(CurrentGame, t.depth,
                                 Environment(IF stop_flag THEN 0 ELSE Never,
                                             IF t.elapsed THEN 0 ELSE Never)))

\* iterative_deepening, lines 225-238
loop_head(t, stop_flag) ==
    IF t.max_depth # Never /\ t.depth > t.max_depth
      THEN [t EXCEPT !.pc = "print"]
      ELSE search_returned(t, Searches[t.game, t.depth, stop_flag, t.elapsed])

\* iterative_deepening, lines 240-252
loop_tail(t, stop_flag) ==
    IF stop_flag THEN [t EXCEPT !.result = NoMove, !.pc = "print"]
    ELSE IF t.time_limit /\ t.elapsed
      THEN [t EXCEPT !.last_move = t.result, !.result = NoMove, !.pc = "print"]
      ELSE [t EXCEPT !.last_move = t.result, !.result = NoMove,
                     !.depth = next_depth(t), !.pc = "loop"]

\* go_movetime, go_depth, go_infinite: print_best_move and the closure returns
returned(t) ==
    [Thread(t.kind, t.game, "done", 0, Never, FALSE) EXCEPT
        !.out = print_best_move(t.last_move)]

\* go_perft, lines 180-191
perft_printed(t, nodes) ==
    [Thread(t.kind, t.game, "done", 0, Never, FALSE) EXCEPT
              !.out = IF nodes = PERFT_INTERRUPTED THEN <<<<"perft interrupted">>>>
                      ELSE <<<<"Nodes searched", nodes>>>>]

go_perft(t, stop_flag) == perft_printed(t, Perfts[t.game, t.depth, stop_flag])

(***************************************************************************)
(* State machine.  Besides the Game: last is the last call (its name, its  *)
(* move, its return value and the Game before it), start the Game at       *)
(* construction, makes and unmakes count the successful try_to_make_move   *)
(* and the unmake_move calls, history holds the Game before each move that *)
(* is on the undo stack.                                                   *)
(***************************************************************************)
InitFrom(games) ==
    \E g \in games :
        /\ position = g.position
        /\ undos = g.undos
        /\ halfmove_clock = g.halfmove_clock
        /\ last = [op |-> "new", m |-> NoMove, ret |-> FALSE, pre |-> g]
        /\ start = g
        /\ makes = 0
        /\ unmakes = 0
        /\ history = <<>>
        /\ uci = UciIdle

Init == InitFrom(InitialGames)

Becomes(g) ==
    /\ position' = g.position
    /\ undos' = g.undos
    /\ halfmove_clock' = g.halfmove_clock

Tried(m, r) ==
    /\ Becomes(r.game)
    /\ last' = [op |-> "try_to_make_move", m |-> m, ret |-> r.ret, pre |-> CurrentGame]
    /\ makes' = IF r.ret THEN makes + 1 ELSE makes
    /\ history' = IF r.ret THEN Append(history, CurrentGame) ELSE history
    /\ UNCHANGED <<start, unmakes, uci>>

Try(m, bound) ==
    /\ makes < bound
    /\ Tried(m, try_to_make_move(CurrentGame, m))

TryToMakeMove == \E m \in MoveInputs(position) : Try(m, MaxMakes)

UnmakeMove ==
    /\ undos # <<>>
    /\ Becomes(Game_unmake_move(CurrentGame))
    /\ last' = [op |-> "unmake_move", m |-> undos[Len(undos)].move_to_undo,
                ret |-> FALSE, pre |-> CurrentGame]
    /\ unmakes' = unmakes + 1
    /\ history' = SubSeq(history, 1, Len(history) - 1)
    /\ UNCHANGED <<start, makes, uci>>

Next == TryToMakeMove \/ UnmakeMove

Spec == Init /\ [][Next]_vars

\* the rook shuffle of the threefold-repetition test
InitRep == InitFrom({GameShuffle})

TryShuffle == \E m \in ShuffleInputs(position) : Try(m, MaxShuffle)

NextRep == TryShuffle \/ UnmakeMove

SpecRep == InitRep /\ [][NextRep]_vars

\* make_move and unmake_move on every generated move: the positions are
\* the initial ones and those up to MaxRound moves away
TryRound == \E m \in MoveInputs(position) : Try(m, MaxRound)

NextRound == TryRound \/ UnmakeMove

SpecRound == Init /\ [][NextRound]_vars

(***************************************************************************)
(* Material: the positions is_insufficient_material is evaluated on.  The  *)
(* kings stand on e1 and e8; up to MaxExtra further pieces of either side  *)
(* stand on c3, d3, b6, b7 (squares of both colours, none of them          *)
(* attacking e8).                                                          *)
(***************************************************************************)
MatSquares == {18, 19, 41, 49}

MatPieces == {"Pawn", "Knight", "Bishop", "Rook", "Queen"}

MatSet(f, who, king) ==
    Placement({s \in DOMAIN f : f[s] = <<who, "Pawn">>},
              {s \in DOMAIN f : f[s] = <<who, "Knight">>},
              {s \in DOMAIN f : f[s] = <<who, "Bishop">>},
              {s \in DOMAIN f : f[s] = <<who, "Rook">>},
              {s \in DOMAIN f : f[s] = <<who, "Queen">>},
              {king})

MatGames ==
    {Game_from_fen(MatSet(f, "White", E1), MatSet(f, "Black", E8),
                   "White", NoRights, NoSquare, 0) :
        f \in UNION {[S -> Players \X MatPieces] :
                        S \in {T \in SUBSET MatSquares : Cardinality(T) <= MaxExtra}}}

InitMat == InitFrom(MatGames)

\* a call of is_insufficient_material on the current position
Evaluate ==
    /\ last.op = "new"
    /\ last' = [op |-> "is_insufficient_material", m |-> NoMove,
                ret |-> is_insufficient_material(position), pre |-> CurrentGame]
    /\ UNCHANGED <<position, undos, halfmove_clock, start, makes, unmakes, history, uci>>

NextMat == Evaluate

SpecMat == InitMat /\ [][NextMat]_vars

(***************************************************************************)
(* Move generation: pseudo_moves of src/movegen.rs called on the positions *)
(* of SpecRound.                                                           *)
(***************************************************************************)
PseudoMoves ==
    /\ last.op # "pseudo_moves"
    /\ last' = [op |-> "pseudo_moves", m |-> NoMove,
                ret |-> movegen_pseudo_moves(position), pre |-> CurrentGame]
    /\ UNCHANGED <<position, undos, halfmove_clock, start, makes, unmakes, history, uci>>

NextGen == TryRound \/ UnmakeMove \/ PseudoMoves

SpecGen == Init /\ [][NextGen]_vars

(***************************************************************************)
(* Perft: perft called with the stop flag clear or set, on the initial     *)
(* position with the depths 0, 1, 2 of tests::perft_initial_0_5 and, with  *)
(* a depth up to MaxPerftDepth, on the pawn position, the pin position and *)
(* the games one move after the pawn position.                             *)
(***************************************************************************)
Successors(g) ==
    {try_to_make_move(g, m).game :
        m \in {x \in MoveInputs(g.position) : try_to_make_move(g, x).ret}}

PerftGames == {Game_default, GamePawns, GamePin} \cup Successors(GamePawns)

PerftDepths(g) == IF g = Game_default THEN 0..2 ELSE 0..MaxPerftDepth

InitPerft == InitFrom(PerftGames)

\* the flag is never set, set before the call, or set between two loads
PerftStops == {Never, 0, 1, 3}

\* the call has returned: the Game is what the call left
PerftReturned(r, depth, stop_flag) ==
    /\ Becomes(r.game)
    /\ last' = [op |-> "perft", m |-> NoMove, ret |-> r.nodes, loads |-> r.loads,
                pre |-> CurrentGame, depth |-> depth, stop_flag |-> stop_flag]
    /\ UNCHANGED <<start, makes, unmakes, history, uci>>

Perft ==
    \E depth \in PerftDepths(CurrentGame) : \E stop_flag \in PerftStops :
        /\ last.op = "new"
        /\ \E r \in {perft(CurrentGame, depth, 0, stop_flag, 0)} :
              PerftReturned(r, depth, stop_flag)

NextPerft == Perft

SpecPerft == InitPerft /\ [][NextPerft]_vars

(***************************************************************************)
(* Search: find_best_move called on the mate, stalemate and forced-move    *)
(* games with a depth up to MaxSearchDepth, the flag and the clock quiet   *)
(* or fired before the first node, and on the mate-race game one ply       *)
(* deeper with the flag set at the first node.                             *)
(***************************************************************************)
SearchGames ==
    {GameMated, GameMatedFifty, GameWhiteMated, GameStalemate, GameForced,
     GameForcedFifty, GameMateRace}

SearchEnvironments ==
    {Environment(Never, Never), Environment(0, Never), Environment(Never, 0)}

SearchInputs(g) ==
    {[depth |-> d, env |-> e] : d \in 1..MaxSearchDepth, e \in SearchEnvironments}
    \cup (IF g = GameMateRace
            THEN {[depth |-> MaxSearchDepth + 1, env |-> Environment(1, Never)]}
            ELSE {})

InitSearch == InitFrom(SearchGames)

\* the call has returned: the Game is what the call left
FindBestMoveReturned(r, in) ==
    /\ Becomes(r.game)
    /\ last' = [op |-> "find_best_move", m |-> NoMove, ret |-> r,
                pre |-> CurrentGame, depth |-> in.depth, env |-> in.env]
    /\ UNCHANGED <<start, makes, unmakes, history, uci>>

FindBestMove ==
    \E in \in SearchInputs(CurrentGame) :
        /\ last.op = "new"
        /\ \E r \in {find_best_move(CurrentGame, in.depth, in.env)} :
              FindBestMoveReturned(r, in)

\* the runs of iterative_deepening: go depth with a cap up to MaxDepthCap,
\* the flag set before the first or the second iteration or not at all, the
\* time limit absent or elapsed at the start; on the mate-race game go
\* movetime with a limit that elapses at the first node of the iteration
\* after MaxSearchDepth
DeepeningInputs(g) ==
    {[max_depth |-> d, stop_at |-> s, deadline_at |-> t] :
        d \in 1..MaxDepthCap,
        s \in {NoInstant, Instant(1, 0), Instant(2, 0)},
        t \in {NoInstant, Instant(1, 0)}}
    \cup (IF g = GameMateRace
            THEN {[max_depth |-> Never, stop_at |-> NoInstant,
                   deadline_at |-> Instant(MaxSearchDepth + 1, 1)]}
            ELSE {})

\* the run has returned: the Game is what its last search left
DeepeningReturned(run, in) ==
    /\ Becomes(IF run.iterations = <<>> THEN CurrentGame
               ELSE run.iterations[Len(run.iterations)].result.game)
    /\ last' = [op |-> "iterative_deepening", m |-> NoMove, ret |-> run,
                pre |-> CurrentGame, max_depth |-> in.max_depth,
                stop_at |-> in.stop_at, deadline_at |-> in.deadline_at]
    /\ UNCHANGED <<start, makes, unmakes, history, uci>>

IterativeDeepening ==
    \E in \in DeepeningInputs(CurrentGame) :
        /\ last.op = "new"
        /\ \E run \in {iterative_deepening(CurrentGame, in.max_depth, in.stop_at,
                                             in.deadline_at)} :
              DeepeningReturned(run, in)

NextSearch == FindBestMove \/ IterativeDeepening \/ Perft

SpecSearch == InitSearch /\ [][NextSearch]_vars

(***************************************************************************)
(* UCI: go and stop commands interleaved with the steps of the workers, on *)
(* the forced-move, the checkmate and the stalemate game.                  *)
(***************************************************************************)
InitUci == InitFrom(UciGames)

GoKinds == {"perft", "movetime", "depth", "infinite", "wtime_btime"}

\* go perft and go depth carry a depth
GoDepths(kind) == IF kind \in {"perft", "depth"} THEN 1..MaxDepthCap ELSE {0}

Game_unchanged == UNCHANGED <<position, undos, halfmove_clock, last, start, makes, unmakes, history>>

\* go: stop_search up to the join
Go ==
    \E kind \in GoKinds : \E depth \in GoDepths(kind) :
        /\ uci.pc = "idle"
        /\ Len(uci.threads) < MaxGo
        /\ uci' = store_true(uci, kind, depth)
        /\ Game_unchanged

\* stop: stop_search up to the join
Stop ==
    /\ uci.pc = "idle"
    /\ uci' = store_true(uci, "none", 0)
    /\ Game_unchanged

\* the join returns; stop_search clears the flag and go_* spawns
Join ==
    /\ uci.pc = "join"
    /\ join_returns(uci)
    /\ uci' = store_false_and_spawn(uci, CurrentGame)
    /\ Game_unchanged

Alive(u) == {i \in DOMAIN u.threads : u.threads[i].pc # "done"}

WorkerSearch ==
    \E i \in Alive(uci) :
        /\ uci.threads[i].pc = "loop"
        /\ uci' = [uci EXCEPT !.threads[i] = loop_head(uci.threads[i], uci.stop_flag)]
        /\ Game_unchanged

WorkerTest ==
    \E i \in Alive(uci) :
        /\ uci.threads[i].pc = "searched"
        /\ uci' = [uci EXCEPT !.threads[i] = loop_tail(uci.threads[i], uci.stop_flag)]
        /\ Game_unchanged

WorkerPrintBestMove ==
    \E i \in Alive(uci) :
        /\ uci.threads[i].pc = "print"
        /\ uci' = [uci EXCEPT !.threads[i] = returned(uci.threads[i])]
        /\ Game_unchanged

WorkerPerft ==
    \E i \in Alive(uci) :
        /\ uci.threads[i].pc = "perft"
        /\ uci' = [uci EXCEPT !.threads[i] = go_perft(uci.threads[i], uci.stop_flag)]
        /\ Game_unchanged

\* the time limit of a go movetime worker elapses
TimeElapses ==
    \E i \in Alive(uci) :
        /\ uci.threads[i].time_limit /\ ~uci.threads[i].elapsed
        /\ uci' = [uci EXCEPT !.threads[i].elapsed = TRUE]
        /\ Game_unchanged

WorkerStep == WorkerSearch \/ WorkerTest \/ WorkerPrintBestMove \/ WorkerPerft

NextUci == Go \/ Stop \/ Join \/ WorkerStep \/ TimeElapses

SpecUci == InitUci /\ [][NextUci]_vars

\* a thread that can take a step is scheduled in the end
SpecUciFair == SpecUci /\ WF_vars(WorkerStep)

(***************************************************************************)
(* The relevance masks: a read of ROOK_MASKS or BISHOP_MASKS at a square.  *)
(***************************************************************************)
InitMasks == InitFrom({Game_default})

RookMask ==
    \E sq \in Squares :
        /\ last' = [op |-> "ROOK_MASKS", sq |-> sq, ret |-> ROOK_MASKS[sq]]
        /\ UNCHANGED <<position, undos, halfmove_clock, start, makes, unmakes, history, uci>>

BishopMask ==
    \E sq \in Squares :
        /\ last' = [op |-> "BISHOP_MASKS", sq |-> sq, ret |-> BISHOP_MASKS[sq]]
        /\ UNCHANGED <<position, undos, halfmove_clock, start, makes, unmakes, history, uci>>

NextMasks == RookMask \/ BishopMask

SpecMasks == InitMasks /\ [][NextMasks]_vars

(***************************************************************************)
(* Castling rights: moves made from games in which rights are set.         *)
(***************************************************************************)
RightsGames == {Game_default, GameCastling, GameRookAway, GameCorner}

InitRights == InitFrom(RightsGames)

SpecRights == InitRights /\ [][Next]_vars

(***************************************************************************)
(* The search with the flag clear and no time limit, on the games of      *)
(* RootGames and the games one move after them, to a depth up to           *)
(* MaxRootDepth.                                                           *)
(***************************************************************************)
RootGames ==
    {GameKnight, GameExchange, GamePin, GameMateRace, GameForced,
     GameForcedFifty, GameStalemate, GameMated, GameWhiteMated}

InitRoot == InitFrom(RootGames \cup UNION {Successors(g) : g \in RootGames})

SearchRoot ==
    \E depth \in 1..MaxRootDepth :
        /\ last.op # "find_best_move"
        /\ \E r \in {find_best_move(CurrentGame, depth, Environment(Never, Never))} :
              FindBestMoveReturned(r, [depth |-> depth,
                                       env |-> Environment(Never, Never)])

NextRoot == SearchRoot

SpecRoot == InitRoot /\ [][NextRoot]_vars

(***************************************************************************)
(* The position command and from_fen: FENs that parse, with the Game each  *)
(* stands for, FENs with one bad field, the en-passant fields of the       *)
(* claim, and move lists with tokens that match nothing or an illegal      *)
(* move.  overflow_checks is the build.                                    *)
(***************************************************************************)
\* 4k3/4q3/8/8/8/8/4B3/4K3 w - - 7 1
FenPin ==
    <<
      <<"4", "k", "3", "/", "4", "q", "3", "/", "8", "/", "8", "/", "8", "/", "8", "/", "4", "B", "3", "/", "4", "K", "3">>,
      <<"w">>, <<"-">>, <<"-">>, <<"7">>, <<"1">>>>

\* n3k3/1P6/8/5Pp1/2p5/8/3P4/4K3 w - g6 5 1
FenPawns ==
    <<
      <<"n", "3", "k", "3", "/", "1", "P", "6", "/", "8", "/", "5", "P", "p", "1", "/", "2", "p", "5", "/", "8", "/", "3", "P", "4", "/", "4", "K", "3">>,
      <<"w">>, <<"-">>, <<"g", "6">>, <<"5">>, <<"1">>>>

\* r3k3/8/8/8/8/8/8/R3K2R w KQq - 3 1
FenCastling ==
    <<
      <<"r", "3", "k", "3", "/", "8", "/", "8", "/", "8", "/", "8", "/", "8", "/", "8", "/", "R", "3", "K", "2", "R">>,
      <<"w">>, <<"K", "Q", "q">>, <<"-">>, <<"3">>, <<"1">>>>

\* the Game each of them stands for
GameOf(fen) ==
    CASE fen = FenPin -> GamePin [] fen = FenPawns -> GamePawns
      [] fen = FenCastling -> GameCastling

GoodFens == {FenPin, FenPawns, FenCastling}

\* FenPin with one field replaced, by the kind of the FenParseError
BadFen(kind) ==
    CASE kind = "BadRankCount" ->
          <<
            <<"4", "k", "3", "/", "4", "q", "3", "/", "8", "/", "8", "/", "8", "/", "8", "/", "4", "K", "3">>,
            <<"w">>, <<"-">>, <<"-">>, <<"7">>, <<"1">>>>
      [] kind = "InvalidPieceChar" ->
          <<
            <<"4", "k", "3", "/", "4", "x", "3", "/", "8", "/", "8", "/", "8", "/", "8", "/", "4", "B", "3", "/", "4", "K", "3">>,
            <<"w">>, <<"-">>, <<"-">>, <<"7">>, <<"1">>>>
      [] kind = "BadFileCount" ->
          <<
            <<"4", "k", "3", "/", "4", "q", "4", "/", "8", "/", "8", "/", "8", "/", "8", "/", "4", "B", "3", "/", "4", "K", "3">>,
            <<"w">>, <<"-">>, <<"-">>, <<"7">>, <<"1">>>>
      [] kind = "InvalidSide" ->
          <<
            <<"4", "k", "3", "/", "4", "q", "3", "/", "8", "/", "8", "/", "8", "/", "8", "/", "4", "B", "3", "/", "4", "K", "3">>,
            <<"x">>, <<"-">>, <<"-">>, <<"7">>, <<"1">>>>
      [] kind = "InvalidCastling" ->
          <<
            <<"4", "k", "3", "/", "4", "q", "3", "/", "8", "/", "8", "/", "8", "/", "8", "/", "4", "B", "3", "/", "4", "K", "3">>,
            <<"w">>, <<"K", "X">>, <<"-">>, <<"7">>, <<"1">>>>
      [] kind = "InvalidEnPassant" ->
          <<
            <<"4", "k", "3", "/", "4", "q", "3", "/", "8", "/", "8", "/", "8", "/", "8", "/", "4", "B", "3", "/", "4", "K", "3">>,
            <<"w">>, <<"-">>, <<"e", "9">>, <<"7">>, <<"1">>>>
      [] kind = "InvalidHalfmove" ->
          <<
            <<"4", "k", "3", "/", "4", "q", "3", "/", "8", "/", "8", "/", "8", "/", "8", "/", "4", "B", "3", "/", "4", "K", "3">>,
            <<"w">>, <<"-">>, <<"-">>, <<"x">>, <<"1">>>>
      [] kind = "InvalidFullmove" ->
          <<
            <<"4", "k", "3", "/", "4", "q", "3", "/", "8", "/", "8", "/", "8", "/", "8", "/", "4", "B", "3", "/", "4", "K", "3">>,
            <<"w">>, <<"-">>, <<"-">>, <<"7">>, <<"0">>>>

FenParseErrors ==
    {"BadRankCount", "InvalidPieceChar", "BadFileCount", "InvalidSide",
     "InvalidCastling", "InvalidEnPassant", "InvalidHalfmove", "InvalidFullmove"}

BadFens == {BadFen(kind) : kind \in FenParseErrors}

\* - g6 e3 a1 h8 e0 e9 ex E3 i3 e e33
EnPassantFields ==
    {<<"-">>,
     <<"g", "6">>,
     <<"e", "3">>,
     <<"a", "1">>,
     <<"h", "8">>,
     <<"e", "0">>,
     <<"e", "9">>,
     <<"e", "x">>,
     <<"E", "3">>,
     <<"i", "3">>,
     <<"e">>,
     <<"e", "3", "3">>}

\* FenPawns with the en-passant field replaced
EnPassantFens == {[FenPawns EXCEPT ![4] = field] : field \in EnPassantFields}

FenInputs == GoodFens \cup BadFens \cup EnPassantFens

\* e2e4 e7e5 d1h5 f7f6 zzzz g7g6 h5f3
MovesOpening ==
    <<<<"e", "2", "e", "4">>, <<"e", "7", "e", "5">>, <<"d", "1", "h", "5">>,
      <<"f", "7", "f", "6">>, <<"z", "z", "z", "z">>, <<"g", "7", "g", "6">>,
      <<"h", "5", "f", "3">>>>

\* e2d3 e1d1 e7e2 e8d8
MovesPin ==
    <<<<"e", "2", "d", "3">>, <<"e", "1", "d", "1">>, <<"e", "7", "e", "2">>,
      <<"e", "8", "d", "8">>>>

\* f5g6 a8b6 b7b8q e8e7
MovesPawns ==
    <<<<"f", "5", "g", "6">>, <<"a", "8", "b", "6">>, <<"b", "7", "b", "8", "q">>,
      <<"e", "8", "e", "7">>>>

\* e1g1 e8c8 a8a1 e8d8
MovesCastling ==
    <<<<"e", "1", "g", "1">>, <<"e", "8", "c", "8">>, <<"a", "8", "a", "1">>,
      <<"e", "8", "d", "8">>>>

MoveLists == {<<>>, MovesOpening, MovesPin, MovesPawns, MovesCastling}

Command(head, moves) ==
    <<<<"p", "o", "s", "i", "t", "i", "o", "n">>>> \o head \o
    (IF moves = <<>> THEN <<>> ELSE <<<<"m", "o", "v", "e", "s">>>> \o moves)

StartPos == <<<<"s", "t", "a", "r", "t", "p", "o", "s">>>>

FenHead(fen) == <<<<"f", "e", "n">>>> \o fen

\* position startpos, position fen with each FEN, with FenPin cut to five
\* and to four fields, each with each move list; position alone and with
\* an unknown word
PositionCommands ==
    {Command(head, moves) :
        head \in {StartPos} \cup {FenHead(fen) : fen \in FenInputs}
                 \cup {FenHead(SubSeq(FenPin, 1, n)) : n \in {4, 5}},
        moves \in MoveLists}
    \cup {Command(<<>>, <<>>), Command(<<<<"f", "o", "o">>>>, MovesPin)}

InitPosition == InitFrom({Game_default, GamePin})

PositionReturned(outcome, tokens, overflow_checks) ==
    /\ Becomes(outcome.game)
    /\ last' = [op |-> "position", m |-> NoMove, ret |-> FALSE, pre |-> CurrentGame,
                tokens |-> tokens, overflow_checks |-> overflow_checks,
                aborted |-> outcome.aborted]
    /\ UNCHANGED <<start, makes, unmakes, history, uci>>

\* the opening has been set up by an earlier command
OpeningSetUp == last.op = "position" /\ last.tokens = Command(StartPos, MovesOpening)

\* the first command, or the one after the opening has been set up
PositionCommand ==
    \E tokens \in PositionCommands : \E overflow_checks \in BOOLEAN :
        /\ last.op = "new" \/ OpeningSetUp
        /\ \E outcome \in {position_command(CurrentGame, tokens, overflow_checks)} :
              PositionReturned(outcome, tokens, overflow_checks)

FromFenReturned(parsed, fen, overflow_checks) ==
    /\ last' = [op |-> "from_fen", m |-> NoMove, ret |-> parsed, pre |-> CurrentGame,
                fen |-> fen, overflow_checks |-> overflow_checks,
                aborted |-> parsed.err = "panic"]
    /\ UNCHANGED <<position, undos, halfmove_clock, start, makes, unmakes, history, uci>>

FromFen ==
    \E fen \in FenInputs : \E overflow_checks \in BOOLEAN :
        /\ last.op = "new"
        /\ \E parsed \in {Game_from_fen_text(fen, overflow_checks)} :
              FromFenReturned(parsed, fen, overflow_checks)

NextPosition == PositionCommand \/ FromFen

SpecPosition == InitPosition /\ [][NextPosition]_vars

(***************************************************************************)
(* Isolation: position and ucinewgame commands sent to the main thread     *)
(* while a worker is alive; go is sent on the games of the search tables,  *)
(* and a worker is stopped by the next go.                                 *)
(***************************************************************************)
\* R6k/8/6K1/8/8/8/8/8 b - - 0 1
FenMated ==
    <<<<"R", "6", "k", "/", "8", "/", "6", "K", "1", "/", "8", "/", "8", "/", "8", "/", "8", "/", "8">>, <<"b">>, <<"-">>, <<"-">>, <<"0">>, <<"1">>>>

\* position fen with the checkmate game
IsolationCommands == {Command(FenHead(FenMated), <<>>)}

GoOnTableGame ==
    /\ CurrentGame \in UciGames
    /\ Go

\* the main thread is between two commands and a worker has not returned
WorkerRuns == uci.pc = "idle" /\ Alive(uci) # {}

PositionMeanwhile ==
    \E tokens \in IsolationCommands :
        /\ WorkerRuns
        /\ \E outcome \in {position_command(CurrentGame, tokens, TRUE)} :
              PositionReturned(outcome, tokens, TRUE)

UciNewGameMeanwhile ==
    /\ WorkerRuns
    /\ Becomes(ucinewgame(CurrentGame))
    /\ last' = [op |-> "ucinewgame", m |-> NoMove, ret |-> FALSE, pre |-> CurrentGame]
    /\ UNCHANGED <<start, makes, unmakes, history, uci>>

NextIsolation ==
    GoOnTableGame \/ Join \/ WorkerStep \/ PositionMeanwhile \/ UciNewGameMeanwhile

SpecIsolation == InitUci /\ [][NextIsolation]_vars

(***************************************************************************)
(* Properties.                                                             *)
(***************************************************************************)
unmake_made(made) == unmake_move(made.pos, made.undo, made.halfmove_clock)

\* make_move followed by unmake_move with the UndoData it returned
round_trip(pos, m, clock) == unmake_made(make_move(pos, m, clock))

\* C1: in every reachable position, for every move the generator produces
\* for it, make_move followed by unmake_move with the returned UndoData
\* leaves the position (bitboards of both sides, occupied, side to move,
\* en-passant square, castling rights, zobrist_hash) and the halfmove clock
\* as they were before make_move.
RoundTripLaw ==
    \A m \in MoveInputs(position) :
        round_trip(position, m, halfmove_clock) =
            [pos |-> position, halfmove_clock |-> halfmove_clock]

\* a promotion capture was made and unmade, with an en-passant capture, a
\* double push, a promotion and a quiet move among the moves of the position
RoundTripWitness ==
    /\ last.op = "unmake_move"
    /\ is_capture(last.m) /\ promotion(last.m) # NoPiece
    /\ position = start.position
    /\ \E m \in MoveInputs(position) : is_en_passant(m)
    /\ \E m \in MoveInputs(position) : is_double_push(m)
    /\ \E m \in MoveInputs(position) : promotion(m) # NoPiece /\ ~is_capture(m)
    /\ \E m \in MoveInputs(position) : piece(m) = "King" /\ ~is_capture(m)

\* C2: the incrementally updated hash of the position equals the hash
\* computed from scratch, after every make_move and for every kind of move,
\* castling-right changes and en-passant changes included.
IncrementalHash == position.zobrist_hash = zobrist_hash(position)

PieceBoards(set) == <<set.pawns, set.knights, set.bishops, set.rooks, set.queens, set.king>>

SideWellFormed(set) ==
    /\ set.all = UNION {PieceBoards(set)[i] : i \in 1..6}
    /\ \A i, j \in 1..6 : i # j => PieceBoards(set)[i] \cap PieceBoards(set)[j] = {}

WellFormed(pos) ==
    /\ SideWellFormed(pos.w)
    /\ SideWellFormed(pos.b)
    /\ pos.occupied = pos.w.all \cup pos.b.all
    /\ pos.w.all \cap pos.b.all = {}

\* C3: the position is well formed in every reachable state, and so is the
\* position after make_move of each generated move and after the unmake_move
\* that follows it: each side's all is the union of its six piece
\* bitboards, these are pairwise disjoint, occupied is w.all | b.all, and
\* w.all & b.all = 0.
BoardWellFormed ==
    /\ WellFormed(position)
    /\ \A m \in MoveInputs(position) :
          /\ WellFormed(make_move(position, m, halfmove_clock).pos)
          /\ WellFormed(round_trip(position, m, halfmove_clock).pos)

\* an en-passant capture was made: the captured pawn is gone from its
\* square, which is not the square the capturing pawn moved to
BoardWellFormedWitness ==
    /\ last.op = "try_to_make_move" /\ last.ret
    /\ is_en_passant(last.m)
    /\ Cardinality(position.occupied) = Cardinality(last.pre.position.occupied) - 1
    /\ \E m \in MoveInputs(last.pre.position) : is_capture(m) /\ promotion(m) # NoPiece

\* the position after the i-th move of the undo stack
PositionAfter(i) == IF i = Len(undos) THEN position ELSE history[i + 1].position

MoverInCheck(pos) == is_king_in_check(pos, opposite(pos.player_to_move))

\* C4: when try_to_make_move returned true the king of the side that just
\* moved is not attacked in the resulting position, and no move on the undo
\* stack left its mover's king attacked.
NoSelfCheck ==
    /\ (last.op = "try_to_make_move" /\ last.ret) => ~MoverInCheck(position)
    /\ \A i \in 1..Len(undos) : ~MoverInCheck(PositionAfter(i))

\* a move was accepted after another generated move of the same position
\* was rejected, and the accepted move gives check to the other side
NoSelfCheckWitness ==
    /\ last.op = "try_to_make_move" /\ last.ret
    /\ is_king_in_check(position, position.player_to_move)
    /\ \E m \in MoveInputs(last.pre.position) : ~try_to_make_move(last.pre, m).ret

\* C5: when try_to_make_move returns false the Game (position with its
\* hash, undos, halfmove_clock) is what it was before the call; when it
\* returns true exactly one UndoData was appended to undos.
RejectedMoveLeavesGame ==
    last.op = "try_to_make_move" =>
        IF last.ret
          THEN /\ Len(undos) = Len(last.pre.undos) + 1
               /\ SubSeq(undos, 1, Len(undos) - 1) = last.pre.undos
               /\ undos[Len(undos)].move_to_undo = last.m
          ELSE CurrentGame = last.pre

\* a move that exposes the mover's king was rejected, with a move on the
\* undo stack
RejectedMoveWitness ==
    /\ last.op = "try_to_make_move" /\ ~last.ret
    /\ undos # <<>>
    /\ MoverInCheck(make_move(last.pre.position, last.m, last.pre.halfmove_clock).pos)

\* C6: the length of undos is the number of successful makes minus the
\* number of unmakes; unmake_move gives back the Game as it was before the
\* move on top of the stack, so n unmakes after n makes give back the Game
\* before the first move.
UndoStackLifo ==
    /\ Len(undos) = makes - unmakes
    /\ Len(history) = Len(undos)
    /\ undos # <<>> => Game_unmake_move(CurrentGame) = history[Len(history)]
    /\ undos = <<>> => CurrentGame = start

\* two moves were made and one unmade; the second unmake gives the start
UndoStackLifoWitness ==
    /\ last.op = "unmake_move"
    /\ Len(last.pre.undos) = 2 /\ Len(undos) = 1
    /\ CurrentGame # start
    /\ Game_unmake_move(CurrentGame) = start

\* C7: after make_move the halfmove clock is 0 if the move is a pawn move or
\* a capture, and otherwise (castling included) the clock before the move
\* plus 1.
HalfmoveClockRule ==
    (last.op = "try_to_make_move" /\ last.ret) =>
        halfmove_clock = IF piece(last.m) = "Pawn" \/ is_capture(last.m)
                           THEN 0
                           ELSE last.pre.halfmove_clock + 1

ZobristEnPassantKeys == {ZOBRIST_EN_PASSANT_FILE(file) : file \in 0..7}

\* the en-passant square and the en-passant keys of the hash, after make_move
EnPassantAfter(m, made) ==
    /\ made.en_passant_square =
          IF piece(m) = "Pawn" /\ (m.to - m.from = 16 \/ m.from - m.to = 16)
            THEN (m.from + m.to) \div 2
            ELSE NoSquare
    /\ made.zobrist_hash \cap ZobristEnPassantKeys =
          IF made.en_passant_square = NoSquare THEN {}
          ELSE {ZOBRIST_EN_PASSANT_FILE(made.en_passant_square % 8)}

\* C8: after make_move of any generated move, en_passant_square is the
\* midpoint (from+to)/2 if and only if the move is a pawn double push and is
\* None after every other move, whatever it was before; the hash holds the
\* key of the new en-passant file and no longer that of the old one.
EnPassantUpdate ==
    /\ position.zobrist_hash \cap ZobristEnPassantKeys =
          IF position.en_passant_square = NoSquare THEN {}
          ELSE {ZOBRIST_EN_PASSANT_FILE(position.en_passant_square % 8)}
    /\ \A m \in MoveInputs(position) :
          EnPassantAfter(m, make_move(position, m, halfmove_clock).pos)

\* a double push was made in a position that had an en-passant square on
\* another file, and the position it led to has a move that is no double push
EnPassantUpdateWitness ==
    /\ last.op = "try_to_make_move" /\ last.ret
    /\ is_double_push(last.m)
    /\ last.pre.position.en_passant_square # NoSquare
    /\ position.en_passant_square = (last.m.from + last.m.to) \div 2
    /\ position.en_passant_square % 8 # last.pre.position.en_passant_square % 8
    /\ \E m \in MoveInputs(position) : ~is_double_push(m)

\* the moves on the undo stack, as (from, to) pairs
MovesMade == [i \in 1..Len(undos) |-> <<undos[i].move_to_undo.from, undos[i].move_to_undo.to>>]

\* G3F3, C7C6, F3G3, C6C7, twice
RookShuffle == <<<<22, 21>>, <<50, 42>>, <<21, 22>>, <<42, 50>>,
                 <<22, 21>>, <<50, 42>>, <<21, 22>>, <<42, 50>>>>

\* earlier positions of the game that equal the current one
EarlierOccurrences == {i \in 1..Len(history) : Board(history[i].position) = Board(position)}

\* C9: is_threefold_repetition returns true if and only if the hash of the
\* current position equals the stored pre-move hash of at least two entries
\* of undos, that is if and only if the current position has occurred at
\* least three times among the positions of the game; after the rook
\* shuffle played twice it returns true.
ThreefoldRepetition ==
    /\ is_threefold_repetition(CurrentGame) <=>
          Cardinality({i \in 1..Len(undos) :
                          undos[i].zobrist_hash = position.zobrist_hash}) >= 2
    /\ is_threefold_repetition(CurrentGame) <=> Cardinality(EarlierOccurrences) >= 2
    /\ MovesMade = RookShuffle => is_threefold_repetition(CurrentGame)

\* the rook shuffle was played twice and the position is the initial one
\* for the third time
ThreefoldRepetitionWitness ==
    /\ MovesMade = RookShuffle
    /\ last.op = "try_to_make_move" /\ last.ret
    /\ Board(position) = Board(start.position)
    /\ EarlierOccurrences = {1, 5}
    /\ is_threefold_repetition(CurrentGame)
    /\ ~is_threefold_repetition(last.pre)

\* the squares of the pieces that are not kings, and what stands on them
ExtraSquares(pos) == {s \in Squares : Position_what(pos, s)[2] \notin {NoPiece, "King"}}

SameColourSquares(s, t) ==
    ((s % 8) + (s \div 8)) % 2 = ((t % 8) + (t \div 8)) % 2

\* the material that cannot mate: K-K, K+minor against K, and K+B against
\* K+B with the bishops on squares of one colour
CannotMateWith(pos, extras) ==
    \/ extras = {}
    \/ \E s \in extras :
          /\ extras = {s}
          /\ Position_what(pos, s)[2] \in {"Bishop", "Knight"}
    \/ \E s, t \in extras :
          /\ s # t /\ extras = {s, t}
          /\ Position_what(pos, s) = <<"White", "Bishop">>
          /\ Position_what(pos, t) = <<"Black", "Bishop">>
          /\ SameColourSquares(s, t)

CannotMate(pos) == CannotMateWith(pos, ExtraSquares(pos))

\* C10: on a position with one king per side is_insufficient_material
\* returns true exactly for 2 pieces, for 3 pieces with the extra one a
\* bishop or a knight, and for 4 pieces with one bishop per side, no knights
\* and the bishops on squares of the same colour; false otherwise.
InsufficientMaterial ==
    last.op = "is_insufficient_material" =>
        /\ Cardinality(position.w.king) = 1 /\ Cardinality(position.b.king) = 1
        /\ last.ret = CannotMate(position)

\* is_insufficient_material returned true on K+B against K+B, and false
\* with opposite-coloured bishops on the same position otherwise
InsufficientMaterialWitness ==
    /\ last.op = "is_insufficient_material" /\ last.ret
    /\ position.w.bishops = {18} /\ position.b.bishops = {41}
    /\ Cardinality(position.occupied) = 4
    /\ ~is_insufficient_material(
          [position EXCEPT !.b = [position.b EXCEPT !.bishops = {49},
                                                    !.all = {49, E8}]])

\* the pseudo-legal moves of the six piece types of the side to move
PseudoLegalMoves(pos) ==
    generate_pseudo_pawn_moves(pos) \cup
    UNION {generate_pseudo_moves_for_piece(pos, p) :
              p \in {"Knight", "Bishop", "Rook", "Queen", "King"}}

Occurrences(list, m) == Cardinality({i \in 1..Len(list) : list[i] = m})

EachOnce(list, ms) ==
    /\ \A m \in ms : Occurrences(list, m) = 1
    /\ \A i \in 1..Len(list) : list[i] \in ms

\* C11: the list pseudo_moves returns holds every pseudo-legal move of the
\* pawns, knights, bishops, rooks, queens and king of the side to move, and
\* each of them exactly once
GeneratesEachMoveOnce ==
    last.op = "pseudo_moves" => EachOnce(last.ret, PseudoLegalMoves(position))

Abs(x) == IF x < 0 THEN -x ELSE x

Sgn(x) == IF x < 0 THEN -1 ELSE IF x > 0 THEN 1 ELSE 0

FileDiff(from, to) == (to % 8) - (from % 8)

RankDiff(from, to) == (to \div 8) - (from \div 8)

Distance(from, to) ==
    IF Abs(FileDiff(from, to)) > Abs(RankDiff(from, to))
      THEN Abs(FileDiff(from, to)) ELSE Abs(RankDiff(from, to))

\* the squares strictly between two squares of one rank, file or diagonal
StrictlyBetween(from, to) ==
    {from + k * (Sgn(FileDiff(from, to)) + 8 * Sgn(RankDiff(from, to))) :
        k \in 1..(Distance(from, to) - 1)}

Diagonal(from, to) ==
    from # to /\ Abs(FileDiff(from, to)) = Abs(RankDiff(from, to))

Straight(from, to) ==
    from # to /\ (FileDiff(from, to) = 0 \/ RankDiff(from, to) = 0)

Unobstructed(pos, from, to) == StrictlyBetween(from, to) \cap pos.occupied = {}

\* a piece of the kind, owned by the player and standing on from, attacks to
PieceAttacks(pos, kind, owner, from, to) ==
    CASE kind = "Pawn" ->
            /\ Abs(FileDiff(from, to)) = 1
            /\ RankDiff(from, to) = (IF owner = "White" THEN 1 ELSE -1)
      [] kind = "Knight" ->
            {Abs(FileDiff(from, to)), Abs(RankDiff(from, to))} = {1, 2}
      [] kind = "King" -> Distance(from, to) = 1
      [] kind = "Bishop" -> Diagonal(from, to) /\ Unobstructed(pos, from, to)
      [] kind = "Rook" -> Straight(from, to) /\ Unobstructed(pos, from, to)
      [] kind = "Queen" ->
            (Diagonal(from, to) \/ Straight(from, to)) /\ Unobstructed(pos, from, to)

SomePieceAttacks(pos, sq, p) ==
    \E kind \in Pieces :
        \E from \in friendly_of(pos, p)[piece_to_bb(kind)] :
            PieceAttacks(pos, kind, p, from, sq)

KingSquare(pos, player) == lsb(friendly_of(pos, player).king)

\* C12: is_square_attacked(pos, sq, p) holds exactly when a pawn of p stands
\* diagonally behind sq, a knight or king of p stands at knight or king
\* distance, or a bishop, rook or queen of p stands on a line to sq with no
\* piece strictly between; is_king_in_check(pos, player) is that query on the
\* player's king square by the opponent
AttackQueryGeometry ==
    /\ \A sq \in Squares : \A p \in Players :
          is_square_attacked(position, sq, p) <=> SomePieceAttacks(position, sq, p)
    /\ \A player \in Players :
          is_king_in_check(position, player) <=>
              SomePieceAttacks(position, KingSquare(position, player), opposite(player))

\* a move was rejected because it left the mover's king attacked along a
\* line, and some slider of the position is obstructed on a line to a square
AttackQueryWitness ==
    /\ last.op = "try_to_make_move" /\ ~last.ret
    /\ is_king_in_check(make_move(position, last.m, halfmove_clock).pos,
                        position.player_to_move)
    /\ \E sq \in Squares : \E from \in position.w.rooks \cup position.w.bishops :
          /\ (Straight(from, sq) \/ Diagonal(from, sq))
          /\ ~Unobstructed(position, from, sq)
          /\ ~is_square_attacked(position, sq, "White")

\* the move, made on the game, leaves the mover's king unattacked
LeavesKingSafe(g, m) ==
    ~SomePieceAttacks(make_move(g.position, m, g.halfmove_clock).pos,
                      KingSquare(make_move(g.position, m, g.halfmove_clock).pos,
                                 g.position.player_to_move),
                      opposite(g.position.player_to_move))

LegalMoves(g) == {m \in MoveInputs(g.position) : LeavesKingSafe(g, m)}

\* the number of sequences of d legal moves from the game
RECURSIVE LegalSequences(_, _)
RECURSIVE SumSequences(_, _, _, _)
SumSequencesRest(g, ms, d, acc, m) ==
    SumSequences(g, ms \ {m}, d,
                 acc + LegalSequences(try_to_make_move(g, m).game, d - 1))

SumSequences(g, ms, d, acc) ==
    IF ms = {} THEN acc
    ELSE SumSequencesRest(g, ms, d, acc, CHOOSE m \in ms : TRUE)

LegalSequences(g, d) ==
    IF d = 0 THEN 1 ELSE SumSequences(g, LegalMoves(g), d, 0)

\* perft(d-1) summed over the pseudo-legal moves try_to_make_move accepts
RECURSIVE SumBranches(_, _, _, _, _)
BranchOf(r, d) == IF r.ret THEN perft(r.game, d - 1, 1, Never, 0).nodes ELSE 0

SumBranches(g, moves, i, d, acc) ==
    IF i > Len(moves) THEN acc
    ELSE SumBranches(g, moves, i + 1, d,
                     acc + BranchOf(try_to_make_move(g, moves[i]), d))

AcceptedBranches(g, d) == SumBranches(g, pseudo_moves(g.position), 1, d, 0)

PerftOf(g, d, result) ==
    /\ d = 0 => result = 1
    /\ d > 0 => result = AcceptedBranches(g, d)
    /\ result = LegalSequences(g, d)
    /\ g = Game_default /\ d = 1 => result = 20
    /\ g = Game_default /\ d = 2 => result = 400

Checkmated(g) ==
    /\ SomePieceAttacks(g.position, KingSquare(g.position, g.position.player_to_move),
                        opposite(g.position.player_to_move))
    /\ LegalMoves(g) = {}

\* C14: on a position whose side to move is checkmated the search returns,
\* at every depth >= 1, no best move and a score of absolute value at least
\* CHECKMATE_EVAL - depth
CheckmateAtRoot ==
    last.op = "find_best_move" /\ Checkmated(last.pre) =>
        /\ last.ret.best_move = NoMove
        /\ Abs(last.ret.eval) >= CHECKMATE_EVAL - last.depth

\* C15: on a position whose side to move has exactly one legal move
\* find_best_move returns that move at every depth >= 1
ForcedMove ==
    last.op = "find_best_move" /\ Cardinality(LegalMoves(last.pre)) = 1 =>
        last.ret.best_move \in LegalMoves(last.pre)

\* the plies between the root of the last search and a checkmate it scored
PliesFromRoot(mate) == last.depth - mate.depth

WorseForMated(a, b) ==
    IF a.mated = "White" THEN a.eval < b.eval ELSE a.eval > b.eval

\* C16: of two checkmates of the same side scored within one search, the one
\* fewer plies from the root has the score that is worse for the mated side
MateDistanceOrdering ==
    last.op = "find_best_move" =>
        \A a \in last.ret.mates : \A b \in last.ret.mates :
            a.mated = b.mated /\ PliesFromRoot(a) < PliesFromRoot(b) =>
                WorseForMated(a, b)

\* C18: a search whose stop flag is set when its counter stands at stop_from
\* visits at most 1024 further nodes
BoundedResponseToStop ==
    last.op = "find_best_move" /\ last.env.stop_from # Never =>
        last.ret.nodes <= last.env.stop_from + POLL_INTERVAL

\* the iterations of a run whose search was not unwound and after which the
\* stop flag was clear
Accepted(run, stop_at) ==
    {i \in DOMAIN run.iterations :
        /\ ~run.iterations[i].result.unwind
        /\ ~Happened(stop_at, run.iterations[i].depth)}

Deepest(set) == CHOOSE i \in set : \A j \in set : j <= i

ReportedDepths(run) == {run.info[j].depth : j \in DOMAIN run.info}

CompletedWork(run, accepted) ==
    /\ \A i \in DOMAIN run.iterations :
          run.iterations[i].result.unwind =>
              run.iterations[i].depth \notin ReportedDepths(run)
    /\ run.last_move = IF accepted = {} THEN NoMove
                       ELSE run.iterations[Deepest(accepted)].result.best_move

\* C17: iterative_deepening returns the best move of the deepest iteration
\* that ran to completion; an iteration unwound by the stop flag or by the
\* deadline is neither returned as best move nor reported in an info line
CompletedWorkOnly ==
    last.op = "iterative_deepening" =>
        CompletedWork(last.ret, Accepted(last.ret, last.stop_at))

\* C19: at every moment at most one search or perft worker is alive, and a
\* worker is spawned only by a go command (perft, movetime, depth, infinite,
\* wtime/btime) that has set the stop flag and joined the previous worker,
\* for every interleaving of go and stop with the steps of the workers.
AtMostOneWorker ==
    /\ [](Cardinality(Alive(uci)) <= 1)
    /\ [][Len(uci'.threads) > Len(uci.threads) =>
            /\ uci.stop_flag
            /\ uci.pending \in GoKinds
            /\ Alive(uci) = {}
            /\ Alive(uci') = {Len(uci'.threads)}]_vars

\* a go infinite worker, which ends only when stopped, has ended and the
\* worker of the next go runs
AtMostOneWorkerWitness ==
    /\ Len(uci.threads) = 2
    /\ uci.threads[1].kind = "go_infinite"
    /\ uci.threads[1].pc = "done"
    /\ uci.threads[2].pc \in {"loop", "searched", "perft"}

IsSearch(t) == t.kind \in {"go_movetime", "go_depth", "go_infinite"}

Bestmoves(t) == Cardinality({k \in DOMAIN t.out : t.out[k][1] = "bestmove"})

\* every thread but the one search_thread holds has returned, a search
\* thread among them having printed its one bestmove line
PrintedBeforeReturn ==
    \A i \in DOMAIN uci.threads :
        /\ Bestmoves(uci.threads[i]) <= 1
        /\ i # uci.search_thread =>
              /\ uci.threads[i].pc = "done"
              /\ IsSearch(uci.threads[i]) => Bestmoves(uci.threads[i]) = 1
        /\ (uci.threads[i].pc = "done" /\ IsSearch(uci.threads[i])) =>
              Bestmoves(uci.threads[i]) = 1
        /\ ~IsSearch(uci.threads[i]) => Bestmoves(uci.threads[i]) = 0

InfiniteStopped(i) ==
    /\ i \in DOMAIN uci.threads
    /\ uci.threads[i].kind = "go_infinite"
    /\ uci.stop_flag

Returned(i) == i \in DOMAIN uci.threads /\ uci.threads[i].pc = "done"

\* C20: every search worker prints exactly one bestmove line, which is
\* printed before the stop_search of a stop or of a later go returns, hence
\* before a later worker starts; a go infinite worker returns once the stop
\* flag is set.
OneBestmoveBeforeStopReturns ==
    /\ []PrintedBeforeReturn
    /\ \A i \in 1..MaxGo : InfiniteStopped(i) ~> Returned(i)

\* a stopped go infinite worker has printed its move before the next
\* worker was spawned
OneBestmoveWitness ==
    /\ Len(uci.threads) = 2
    /\ uci.threads[1].kind = "go_infinite"
    /\ uci.threads[1].out = <<<<"bestmove", 56, 57>>>>
    /\ uci.search_thread = 2

Border == FILE_A \cup FILE_H \cup RANK(1) \cup RANK(8)

\* C25: for every square s, BISHOP_MASKS[s] is the set of the squares on the
\* diagonals through s, other than s, that are on neither rank 1, rank 8,
\* file A nor file H.
BishopMaskExcludesBorder ==
    last.op = "BISHOP_MASKS" =>
        last.ret = {t \in Squares : Diagonal(last.sq, t)} \ Border

\* C26: the UndoData that make_move returns for an en-passant capture has
\* captured_piece = Some(Pawn), as the UndoData of every other capture has
\* the piece that stood on the target square.
EnPassantCaptureRecorded ==
    \A i \in DOMAIN undos :
        /\ is_en_passant(undos[i].move_to_undo) => undos[i].captured_piece = "Pawn"
        /\ (is_capture(undos[i].move_to_undo) /\ ~is_en_passant(undos[i].move_to_undo)) =>
              undos[i].captured_piece =
                  Position_what(history[i].position, undos[i].move_to_undo.to)[2]

Sides == {"KingSide", "QueenSide"}

HasRight(c, player, side) ==
    CASE player = "White" /\ side = "KingSide"  -> c.white_kingside
      [] player = "White" /\ side = "QueenSide" -> c.white_queenside
      [] player = "Black" /\ side = "KingSide"  -> c.black_kingside
      [] player = "Black" /\ side = "QueenSide" -> c.black_queenside

HomeCorner(player, side) ==
    CASE player = "White" /\ side = "KingSide"  -> H1
      [] player = "White" /\ side = "QueenSide" -> A1
      [] player = "Black" /\ side = "KingSide"  -> H8
      [] player = "Black" /\ side = "QueenSide" -> A8

KingHome(player) == IF player = "White" THEN E1 ELSE E8

MoveMade == last.op = "try_to_make_move" /\ last.ret

Mover == last.pre.position.player_to_move

\* C28: a move that is made clears a castling right of the mover only when
\* the mover castles, moves its king, or moves a rook away from the home
\* corner of that right.
RightsRevokedForCause ==
    MoveMade =>
        \A side \in Sides :
            (HasRight(last.pre.position.castling, Mover, side)
                /\ ~HasRight(position.castling, Mover, side)) =>
                \/ is_castling(last.m)
                \/ piece(last.m) = "King"
                \/ piece(last.m) = "Rook" /\ last.m.from = HomeCorner(Mover, side)

\* C29: in every position reached by moves that try_to_make_move accepts,
\* a castling right that is set implies that the king of the right stands
\* on its home square and the rook on its home corner, and every castling
\* move that is made finds its king and its rook on the squares they leave.
RightsImplyHomeSquares ==
    /\ \A player \in Players : \A side \in Sides :
          HasRight(position.castling, player, side) =>
              /\ KingHome(player) \in friendly_of(position, player).king
              /\ HomeCorner(player, side) \in friendly_of(position, player).rooks
    /\ (MoveMade /\ is_castling(last.m)) =>
          /\ last.m.from \in friendly_of(last.pre.position, Mover).king
          /\ HomeCorner(Mover, IF is_kingside_castling(last.m) THEN "KingSide"
                               ELSE "QueenSide")
                \in friendly_of(last.pre.position, Mover).rooks

\* a rook was captured on its home corner while its right was set
RightsImplyHomeSquaresWitness ==
    /\ MoveMade
    /\ is_capture(last.m)
    /\ \E side \in Sides :
          /\ last.m.to = HomeCorner(opposite(Mover), side)
          /\ HasRight(last.pre.position.castling, opposite(Mover), side)
          /\ ~HasRight(position.castling, opposite(Mover), side)

\* C30: when find_best_move (minimax_alphabeta) or perft returns, normally,
\* after a cut-off, unwound by the stop flag or the deadline, or with
\* PERFT_INTERRUPTED, the Game's position, undos and halfmove_clock are
\* what they were when the call started.
TreeWalkRestoresGame ==
    last.op \in {"find_best_move", "perft", "iterative_deepening"} =>
        CurrentGame = last.pre

\* a search was unwound after visiting nodes below the root
TreeWalkUnwoundWitness ==
    /\ last.op = "find_best_move"
    /\ last.ret.unwind
    /\ last.ret.nodes >= POLL_INTERVAL
    /\ CurrentGame = last.pre

\* a node the search scores as a draw before looking at its depth
IsDrawNode(g) ==
    \/ is_threefold_repetition(g)
    \/ is_fifty_move_rule(g)
    \/ is_insufficient_material(g.position)

Largest(values) == CHOOSE x \in values : \A y \in values : y <= x

Smallest(values) == CHOOSE x \in values : \A y \in values : x <= y

\* plain depth-limited minimax: White takes the largest, Black the smallest
\* of the values of the legal moves; a node without one is a checkmate or
\* a stalemate
RECURSIVE Minimax(_, _)
MinimaxAfter(g, m, depth) == Minimax(try_to_make_move(g, m).game, depth - 1)

MinimaxOver(g, depth, values) ==
    IF values = {}
      THEN IF is_king_in_check(g.position, g.position.player_to_move)
             THEN checkmate_eval(g.position.player_to_move, depth)
             ELSE DRAW_EVAL
    ELSE IF g.position.player_to_move = "White" THEN Largest(values)
    ELSE Smallest(values)

Minimax(g, depth) ==
    IF IsDrawNode(g) THEN DRAW_EVAL
    ELSE IF depth = 0 THEN evaluate(g.position)
    ELSE CHOOSE v \in {MinimaxOver(g, depth, values) :
                         values \in {{MinimaxAfter(g, m, depth) : m \in LegalMoves(g)}}} :
             TRUE

\* the number of nodes of the tree plain minimax walks
RECURSIVE TreeNodes(_, _)
RECURSIVE SumNodes(_, _, _, _)
SumNodesRest(g, ms, d, acc, m) ==
    SumNodes(g, ms \ {m}, d, acc + TreeNodes(try_to_make_move(g, m).game, d - 1))

SumNodes(g, ms, d, acc) ==
    IF ms = {} THEN acc ELSE SumNodesRest(g, ms, d, acc, CHOOSE m \in ms : TRUE)

TreeNodes(g, d) ==
    IF IsDrawNode(g) \/ d = 0 THEN 1 ELSE SumNodes(g, LegalMoves(g), d, 1)

RootValue(g, depth, r) ==
    /\ r.eval = Minimax(g, depth)
    /\ r.best_move # NoMove =>
          /\ r.best_move \in LegalMoves(g)
          /\ MinimaxAfter(g, r.best_move, depth) = r.eval
    /\ r.best_move = NoMove => IsDrawNode(g) \/ LegalMoves(g) = {}

\* C27: when find_best_move returns without an unwind, for a depth of at
\* least 1, its score is the value of plain depth-limited minimax over the
\* same tree (White maximizing, Black minimizing, leaves scored by evaluate,
\* draw nodes 0, checkmate and stalemate nodes scored as the code scores
\* them), and the best move it returns is a legal move of the root whose
\* subtree has that value.
AlphaBetaKeepsRootValue ==
    last.op = "find_best_move" /\ ~last.ret.unwind /\ last.depth >= 1 =>
        RootValue(last.pre, last.depth, last.ret)

\* a search to the full depth that cut branches off, at a root where the
\* legal moves do not all have the value of the best one
AlphaBetaWitness ==
    /\ last.op = "find_best_move" /\ ~last.ret.unwind
    /\ last.depth = MaxRootDepth
    /\ last.ret.best_move # NoMove
    /\ last.ret.nodes < TreeNodes(last.pre, last.depth)
    /\ \E m \in LegalMoves(last.pre) : MinimaxAfter(last.pre, m, last.depth) # last.ret.eval

IsFenCommand(tokens) == Len(tokens) >= 2 /\ tokens[2] = <<"f", "e", "n">>

\* the tokens after "moves", where the command has them at index i
MovesAt(tokens, i) ==
    IF i <= Len(tokens) /\ tokens[i] = <<"m", "o", "v", "e", "s">>
      THEN SubSeq(tokens, i + 1, Len(tokens))
      ELSE <<>>

\* the legal moves of the game that are written as the text
Usable(g, text) == {m \in LegalMoves(g) : Move_to_string(m) = text}

\* the generated moves written as the text that leave the own king in check
Rejected(g, text) ==
    {m \in MoveInputs(g.position) : Move_to_string(m) = text /\ ~LeavesKingSafe(g, m)}

\* the Game after the usable ones among the first n texts were made in order
RECURSIVE Applied(_, _, _)
AppliedOne(g, usable) ==
    IF usable = {} THEN g ELSE try_to_make_move(g, CHOOSE m \in usable : TRUE).game

Applied(g, texts, n) ==
    IF n = 0 THEN g
    ELSE The({AppliedOne(before, Usable(before, texts[n])) :
                before \in {Applied(g, texts, n - 1)}})

\* the FEN of the command fails to parse: fewer than six fields, or one of
\* the FENs with a bad field
FailsToParse(tokens) ==
    /\ IsFenCommand(tokens)
    /\ \/ Len(tokens) < 8
       \/ SubSeq(tokens, 3, 8) \in BadFens
       \/ \E n \in {4, 5} : /\ SubSeq(tokens, 3, n + 2) = SubSeq(FenPin, 1, n)
                             /\ tokens[n + 3] = <<"m", "o", "v", "e", "s">>

\* C22: after a position fen command whose FEN fails to parse (a
\* FenParseError of any kind, or fewer than six fields) the Game (position,
\* undos, halfmove_clock) is what it was before the command: none of the
\* command's moves is made; each FEN with a bad field gives the error of
\* its kind.
BadFenPreservesGame ==
    /\ last.op = "position" /\ FailsToParse(last.tokens) =>
          ~last.aborted /\ CurrentGame = last.pre
    /\ \A kind \in FenParseErrors :
          validate_fen(BadFen(kind), last.op = "new") = kind

\* a FEN with a bad field was sent with moves of which one is legal in
\* the Game of before, a Game with moves on its undo stack
BadFenWitness ==
    /\ last.op = "position"
    /\ IsFenCommand(last.tokens) /\ Len(last.tokens) > 9
    /\ SubSeq(last.tokens, 3, 8) \in BadFens
    /\ \E i \in 10..Len(last.tokens) : Usable(last.pre, last.tokens[i]) # {}
    /\ last.pre.undos # <<>>
    /\ CurrentGame = last.pre

\* the Game the head of the command sets up
BaseGame(tokens) ==
    IF IsFenCommand(tokens) THEN GameOf(SubSeq(tokens, 3, 8)) ELSE Game_default

MoveTexts(tokens) == MovesAt(tokens, IF IsFenCommand(tokens) THEN 9 ELSE 3)

SetsUp(tokens) ==
    \/ Len(tokens) >= 2 /\ tokens[2] = <<"s", "t", "a", "r", "t", "p", "o", "s">>
    \/ IsFenCommand(tokens) /\ Len(tokens) >= 8 /\ SubSeq(tokens, 3, 8) \in GoodFens

\* C23: in position ... moves m1 m2 ..., a token that is the text of no
\* pseudo-legal move, or of one try_to_make_move rejects, leaves the Game
\* as it is and the tokens after it are still processed in order: the
\* Game after the command is the one reached by making, in order, each
\* token that is the text of a legal move of the Game reached so far.
UnusableTokensSkipped ==
    last.op = "position" /\ SetsUp(last.tokens) =>
        /\ ~last.aborted
        /\ CurrentGame = Applied(BaseGame(last.tokens), MoveTexts(last.tokens),
                                 Len(MoveTexts(last.tokens)))

\* the Game before the n-th move text of the command
GameBefore(tokens, n) == Applied(BaseGame(tokens), MoveTexts(tokens), n - 1)

\* a token that is the text of no generated move and a token that is the
\* text of an illegal one were followed by a token that made a move
UnusableTokensWitness ==
    /\ last.op = "position" /\ SetsUp(last.tokens)
    /\ \E i, j, k \in 1..Len(MoveTexts(last.tokens)) :
          /\ i < k /\ j < k
          /\ \A m \in MoveInputs(GameBefore(last.tokens, i).position) :
                Move_to_string(m) # MoveTexts(last.tokens)[i]
          /\ Rejected(GameBefore(last.tokens, j), MoveTexts(last.tokens)[j]) # {}
          /\ Usable(GameBefore(last.tokens, j), MoveTexts(last.tokens)[j]) = {}
          /\ Usable(GameBefore(last.tokens, k), MoveTexts(last.tokens)[k]) # {}
          /\ Len(undos) >= k - 2

\* a file letter a-h followed by a rank digit 1-8
IsSquareName(field) ==
    /\ Len(field) = 2
    /\ field[1] \in {"a", "b", "c", "d", "e", "f", "g", "h"}
    /\ field[2] \in {"1", "2", "3", "4", "5", "6", "7", "8"}

\* C24: for a six-field FEN whose other fields are valid, from_fen accepts
\* an en-passant field that is "-" or a file letter a-h followed by a rank
\* digit 1-8, and returns Err(InvalidEnPassant) for every other field; it
\* does not abort.
EnPassantFieldValidated ==
    last.op = "from_fen" /\ last.fen \in EnPassantFens =>
        /\ ~last.aborted
        /\ last.ret.err = IF last.fen[4] = <<"-">> \/ IsSquareName(last.fen[4])
                            THEN "Ok" ELSE "InvalidEnPassant"

\* the threads other than a newly spawned one keep their Game
WorkerGamesKept ==
    /\ Len(uci'.threads) >= Len(uci.threads)
    /\ \A i \in DOMAIN uci.threads : uci'.threads[i].game = uci.threads[i].game

\* a spawned thread holds the Game of the main thread as it is at the spawn
CloneTaken ==
    Len(uci'.threads) > Len(uci.threads) =>
        /\ uci'.threads[Len(uci'.threads)].game = CurrentGame
        /\ CurrentGame' = CurrentGame

\* a step that changes a thread leaves the Game of the main thread, and a
\* step that changes the Game of the main thread leaves every thread; a
\* worker writes neither the flag nor the handle
TasksApart ==
    /\ uci'.threads # uci.threads => CurrentGame' = CurrentGame
    /\ CurrentGame' # CurrentGame => uci' = uci
    /\ uci'.threads # uci.threads /\ Len(uci'.threads) = Len(uci.threads) =>
          /\ uci'.stop_flag = uci.stop_flag
          /\ uci'.search_thread = uci.search_thread

\* what a worker finds and prints comes from its own Game and the flag
ResultFromClone ==
    \A i \in DOMAIN uci.threads :
        /\ uci.threads[i].pc = "loop" /\ uci'.threads[i].pc = "searched" =>
              uci'.threads[i].result =
                  Searches[uci.threads[i].game, uci.threads[i].depth, uci.stop_flag,
                           uci.threads[i].elapsed].best_move
        /\ uci.threads[i].pc = "perft" /\ uci'.threads[i].pc = "done" =>
              uci'.threads[i].out =
                  perft_printed(uci.threads[i],
                                Perfts[uci.threads[i].game, uci.threads[i].depth,
                                       uci.stop_flag]).out

\* C21: a worker's Game is the clone of the main Game taken when the go
\* command spawns it; no step of a worker changes the Game of the main
\* thread, and no position or ucinewgame command of the main thread changes
\* a worker's Game or any other field of a thread; what a worker finds is
\* the result of the search of its own Game, whatever the main Game has
\* become; of the state of the main thread a worker reads the stop flag
\* only and writes none.
WorkerIsolation ==
    [][WorkerGamesKept /\ CloneTaken /\ TasksApart /\ ResultFromClone]_vars

\* a position or ucinewgame command has changed the main Game while a
\* worker was alive, and the worker has then finished a search of its clone
WorkerIsolationWitness ==
    \E i \in DOMAIN uci.threads :
        /\ uci.threads[i].pc = "searched"
        /\ last.op \in {"position", "ucinewgame"}
        /\ last.pre = uci.threads[i].game
        /\ CurrentGame # uci.threads[i].game
        /\ uci.threads[i].result # NoMove

====
